---------------------------- MODULE Spec2Model ----------------------------
(***************************************************************************)
(* A model of the ExpenseReport repository: the forecast split             *)
(* (template_forecast_generator), the expense split                        *)
(* (process_expense_reports) and the pure conversions they share           *)
(* (file-name sanitization, artifact naming, month-end normalization).     *)
(*                                                                         *)
(* Text is modelled as a sequence of one-character strings, so that the    *)
(* character filters of the code act on it as they do in Python. Column    *)
(* labels produced by strftime('%B') are atomic month names.               *)
(***************************************************************************)
EXTENDS Integers, Sequences, FiniteSets, TLC

(***************************************************************************)
(* Bounds of the model.                                                    *)
(***************************************************************************)
MaxKeyLen == 3
LastYear == 2024
MaxExpenseRows == 2
MaxHeadcountRows == 2
MaxOwnerRows == 3
MaxClientRows == 3

(***************************************************************************)
(* State. Each workflow has its own variables; a behaviour runs one of     *)
(* them and leaves the others at rest.                                     *)
(***************************************************************************)
\* The naming conversions applied to one key and one user-entered token.
VARIABLES nm_pc, nm_key, nm_token,
          sanitized_subowner, output_filename,
          clean_owner_name, new_file_name

namesVars == <<nm_pc, nm_key, nm_token, sanitized_subowner, output_filename,
               clean_owner_name, new_file_name>>

\* The month-end normalization applied to one date cell.
VARIABLES dt_pc, dt_original, periodo, periodo_month_name

dateVars == <<dt_pc, dt_original, periodo, periodo_month_name>>

\* template_forecast_generator: the Access tables, the locals of the
\* function, the output folder (file name -> saved workbook), the
\* warnings and errors printed, the files open in excel_app.Workbooks, and
\* the names of the sheets the template workbook has.
VARIABLES fc_pc, access_db, user_forecast_version, df_expenses, df_headcount,
          df_unpivoted_expenses_full, df_pivoted_headcount_full,
          unique_subowners, fc_i, subowner,
          df_filtered_expenses, final_data_table_columns_order_expenses,
          df_pivoted_filtered_headcount, final_data_table_columns_order_headcount,
          forecast_output_folder, fc_log, excel_app_workbooks,
          excel_template_sheetnames

forecastVars ==
    <<fc_pc, access_db, user_forecast_version, df_expenses, df_headcount,
      df_unpivoted_expenses_full, df_pivoted_headcount_full,
      unique_subowners, fc_i, subowner,
      df_filtered_expenses, final_data_table_columns_order_expenses,
      df_pivoted_filtered_headcount, final_data_table_columns_order_headcount,
      forecast_output_folder, fc_log, excel_app_workbooks,
      excel_template_sheetnames>>

\* process_expense_reports: the source workbook's dataRaw rows, the template
\* workbook, the locals of the function, the output folder, the errors
\* printed, and the container the installed openpyxl keeps a sheet's tables
\* in (a list of Table objects before 3.0.4, a TableList dict since).
VARIABLES ex_pc, original_file, template_file, report_period,
          df_data_raw_original, unique_owners, formulas_to_copy, ex_i, owner,
          df_filtered_for_owner, output_directory, ex_log, openpyxl_tables

expenseVars ==
    <<ex_pc, original_file, template_file, report_period, df_data_raw_original,
      unique_owners, formulas_to_copy, ex_i, owner, df_filtered_for_owner,
      output_directory, ex_log, openpyxl_tables>>

\* process_and_alert_client_data: the report workbook on disk, the sheets of
\* the workbook in memory, and the tables the function derives.
VARIABLES cl_pc, report_file, wb_sheets, df_original, df_clients_by_status,
          df_summary, df_filtro1_new, df_filtro2_new

clientVars ==
    <<cl_pc, report_file, wb_sheets, df_original, df_clients_by_status, df_summary,
      df_filtro1_new, df_filtro2_new>>

\* The main script and move_files_to_history: the position of the script, the
\* position inside the archive call, the history and sales folders, the
\* names still to visit, the working folder as the call found it, the
\* counter, the lines printed, and the total the script prints.
VARIABLES main_pc, mv_pc, history_folder, sales_report_path, mv_listing,
          mv_before, moved_count, mv_log, final_total_expense_soles

mainVars ==
    <<main_pc, mv_pc, history_folder, sales_report_path, mv_listing, mv_before,
      moved_count, mv_log, final_total_expense_soles>>

\* process_sales_reports: the position of the function, the folder of source
\* extracts, the period typed in, the directory entries still to visit, the
\* tables loaded, the final table and the lines printed.
VARIABLES sl_pc, input_folder, period_input, sl_entries, all_data_frames, df_final,
          sl_log

salesVars ==
    <<sl_pc, input_folder, period_input, sl_entries, all_data_frames, df_final,
      sl_log>>

otherVars == <<clientVars, mainVars, salesVars>>

vars == <<namesVars, dateVars, forecastVars, expenseVars, otherVars>>

(***************************************************************************)
(* Text.                                                                   *)
(***************************************************************************)
Digits == {"0", "1", "2", "3", "4", "5", "6", "7", "8", "9"}
Letters == {"A", "B", "C", "D", "E", "F", "G", "H", "I", "J", "K", "L", "M",
            "N", "O", "P", "Q", "R", "S", "T", "U", "V", "W", "X", "Y", "Z",
            "a", "b", "c", "d", "e", "f", "g", "h", "i", "j", "k", "l", "m",
            "n", "o", "p", "q", "r", "s", "t", "u", "v", "w", "x", "y", "z"}
Punctuation == {" ", "#", "+", ",", "-", ".", "/", "_"}
Chars == Digits \cup Letters \cup Punctuation

\* The characters in code-point order (Python compares str by code point).
AsciiTable == <<" ", "#", "+", ",", "-", ".", "/",
                "0", "1", "2", "3", "4", "5", "6", "7", "8", "9",
                "A", "B", "C", "D", "E", "F", "G", "H", "I", "J", "K", "L", "M",
                "N", "O", "P", "Q", "R", "S", "T", "U", "V", "W", "X", "Y", "Z",
                "_",
                "a", "b", "c", "d", "e", "f", "g", "h", "i", "j", "k", "l", "m",
                "n", "o", "p", "q", "r", "s", "t", "u", "v", "w", "x", "y", "z">>

\* A null cell (None / NaN): a text no sequence of characters equals.
Null == <<"<NULL>">>

IsNull(v) == v = Null

Ord(c) == CHOOSE k \in 1..Len(AsciiTable) : AsciiTable[k] = c

\* str.__lt__ : lexicographic by code point, a proper prefix sorts first.
RECURSIVE StrLess(_, _)
StrLess(a, b) ==
    IF b = <<>> THEN FALSE
    ELSE IF a = <<>> THEN TRUE
    ELSE IF Head(a) = Head(b) THEN StrLess(Tail(a), Tail(b))
    ELSE Ord(Head(a)) < Ord(Head(b))

\* str.isalnum() on one character.
isalnum(c) == c \in Digits \cup Letters

\* str.startswith(prefix)
startswith(s, prefix) ==
    /\ Len(s) >= Len(prefix)
    /\ SubSeq(s, 1, Len(prefix)) = prefix

\* str.strip(): leading and trailing whitespace removed.
RECURSIVE lstrip(_)
lstrip(s) == IF s # <<>> /\ Head(s) = " " THEN lstrip(Tail(s)) ELSE s

RECURSIVE rstrip(_)
rstrip(s) ==
    IF s # <<>> /\ s[Len(s)] = " " THEN rstrip(SubSeq(s, 1, Len(s) - 1)) ELSE s

strip(s) == rstrip(lstrip(s))

\* str.replace(old, new) for one-character old and new.
replace(s, old, new) == [k \in 1..Len(s) |-> IF s[k] = old THEN new ELSE s[k]]

\* The allow-list both call sites filter with.
AllowedInFileName(c) == isalnum(c) \/ c \in {" ", "_", "-"}

\* forecastTemplate.py:193
SanitizeSubownerDropsHyphen(key) ==
    strip(SelectSeq(key, LAMBDA c : isalnum(c) \/ c \in {" ", "_"}))

SanitizeSubowner(key) ==
    strip(SelectSeq(key, AllowedInFileName))

\* main.py:110
CleanOwnerName(key) ==
    replace(SelectSeq(key, AllowedInFileName), " ", "_")

\* forecastTemplate.py:194
ForecastFileNameKeyFirst(version, sanitized) ==
    <<"Forecast", "_">> \o sanitized \o <<"_">> \o version \o <<".xlsx">>

ForecastFileName(version, sanitized) ==
    <<"Forecast", "_">> \o version \o <<"_">> \o sanitized \o <<".xlsx">>

\* main.py:111
ExpenseFileName(clean_name, period_token) ==
    <<"ExpenseReport", "_">> \o clean_name \o <<"_">> \o period_token \o <<".xlsx">>

(***************************************************************************)
(* State of the naming conversions: one partition-key value and one        *)
(* user-entered token, run through both call sites.                        *)
(***************************************************************************)
KeyChars == {"A", "b", "1", " ", "-", "_", "/", "#"}

RECURSIVE StringsUpTo(_, _)
StringsUpTo(alphabet, n) ==
    IF n = 0 THEN {<<>>}
    ELSE LET shorter == StringsUpTo(alphabet, n - 1)
         IN  shorter \cup {Append(s, c) : s \in shorter, c \in alphabet}

NorthEast1 == <<"N", "o", "r", "t", "h", "/", "E", "a", "s", "t", " ", "#", "1">>

KeyValues == StringsUpTo(KeyChars, MaxKeyLen) \cup {NorthEast1}

\* Non-empty tokens: an empty token is rejected before any name is built.
Tokens == {<<"6", "+", "6">>, <<"Q", "_", "4">>, <<"A">>}

NamesInit ==
    /\ nm_pc = "input"
    /\ nm_key \in KeyValues
    /\ nm_token \in Tokens
    /\ sanitized_subowner = <<>>
    /\ output_filename = <<>>
    /\ clean_owner_name = <<>>
    /\ new_file_name = <<>>

NamesIdle ==
    /\ nm_pc = "idle"
    /\ nm_key = <<>>
    /\ nm_token = <<>>
    /\ sanitized_subowner = <<>>
    /\ output_filename = <<>>
    /\ clean_owner_name = <<>>
    /\ new_file_name = <<>>

\* The naming lines of the forecast loop body (forecastTemplate.py:193-194).
NameForecastArtifact ==
    /\ nm_pc = "input"
    /\ nm_pc' = "forecast_named"
    /\ sanitized_subowner' = SanitizeSubowner(nm_key)
    /\ output_filename' = ForecastFileName(nm_token, SanitizeSubowner(nm_key))
    /\ UNCHANGED <<nm_key, nm_token, clean_owner_name, new_file_name>>
    /\ UNCHANGED <<dateVars, forecastVars, expenseVars, otherVars>>

\* The naming lines of the expense loop body (main.py:110-111).
NameExpenseArtifact ==
    /\ nm_pc = "forecast_named"
    /\ nm_pc' = "named"
    /\ clean_owner_name' = CleanOwnerName(nm_key)
    /\ new_file_name' = ExpenseFileName(CleanOwnerName(nm_key), nm_token)
    /\ UNCHANGED <<nm_key, nm_token, sanitized_subowner, output_filename>>
    /\ UNCHANGED <<dateVars, forecastVars, expenseVars, otherVars>>

(***************************************************************************)
(* Dates. A timestamp is a calendar date with a time of day; NaT is the    *)
(* null timestamp. The month-end normalization is                          *)
(*   pd.to_datetime(col).dt.to_period('M').dt.end_time                     *)
(* where a monthly period is the number of months since 1970-01 and its    *)
(* end_time is one nanosecond before the start of the next period.         *)
(***************************************************************************)
Midnight == [h |-> 0, mi |-> 0, s |-> 0, ns |-> 0]
LastInstant == [h |-> 23, mi |-> 59, s |-> 59, ns |-> 999999999]

NaT == [y |-> 0, m |-> 0, d |-> 0, t |-> Midnight]

Timestamp(y, m, d) == [y |-> y, m |-> m, d |-> d, t |-> Midnight]

IsLeapYear(y) == (y % 4 = 0 /\ y % 100 # 0) \/ y % 400 = 0

DaysInMonth(y, m) ==
    IF m = 2 THEN (IF IsLeapYear(y) THEN 29 ELSE 28)
    ELSE IF m \in {4, 6, 9, 11} THEN 30
    ELSE 31

\* Series.dt.to_period('M'): months since the epoch; NaT stays null.
NaTPeriod == -1
to_period_M(ts) == IF ts = NaT THEN NaTPeriod ELSE (ts.y - 1970) * 12 + (ts.m - 1)

\* Period.start_time
start_time(p) == Timestamp(1970 + (p \div 12), (p % 12) + 1, 1)

\* Timestamp - Timedelta(1, 'ns')
MinusOneNanosecond(ts) ==
    IF ts.t # Midnight THEN [ts EXCEPT !.t.ns = @ - 1]
    ELSE IF ts.d > 1 THEN [ts EXCEPT !.d = @ - 1, !.t = LastInstant]
    ELSE IF ts.m > 1
         THEN [y |-> ts.y, m |-> ts.m - 1, d |-> DaysInMonth(ts.y, ts.m - 1),
               t |-> LastInstant]
    ELSE [y |-> ts.y - 1, m |-> 12, d |-> DaysInMonth(ts.y - 1, 12),
          t |-> LastInstant]

end_time_ThirtyDayMonth(p) ==
    IF p = NaTPeriod THEN NaT
    ELSE [start_time(p) EXCEPT !.d = 30, !.t = LastInstant]

\* Period.end_time: the last nanosecond of the period
end_time(p) ==
    IF p = NaTPeriod THEN NaT ELSE MinusOneNanosecond(start_time(p + 1))

\* forecastTemplate.py:135-136 and 155-156, on one cell of the column.
NormalizePeriod(ts) == end_time(to_period_M(ts))

month_names_ordered ==
    <<"January", "February", "March", "April", "May", "June",
      "July", "August", "September", "October", "November", "December">>

\* Series.dt.strftime('%B'); a null timestamp gives a null label.
NullLabel == "<NULL>"
month_name(ts) == IF ts = NaT THEN NullLabel ELSE month_names_ordered[ts.m]

Years == 2023..LastYear

ValidDates ==
    {ts \in {Timestamp(yy, mm, dd) : yy \in Years, mm \in 1..12, dd \in 1..31} :
        ts.d <= DaysInMonth(ts.y, ts.m)}

DatesInit ==
    /\ dt_pc = "raw"
    /\ dt_original \in ValidDates \cup {NaT}
    /\ periodo = dt_original
    /\ periodo_month_name = NullLabel

DatesIdle ==
    /\ dt_pc = "idle"
    /\ dt_original = NaT
    /\ periodo = NaT
    /\ periodo_month_name = NullLabel

\* forecastTemplate.py:135-137 (and 155-157 for the headcount column).
NormalizeDates ==
    /\ dt_pc = "raw"
    /\ dt_pc' = "normalized"
    /\ periodo' = NormalizePeriod(periodo)
    /\ periodo_month_name' = month_name(NormalizePeriod(periodo))
    /\ UNCHANGED dt_original
    /\ UNCHANGED <<namesVars, forecastVars, expenseVars, otherVars>>

(***************************************************************************)
(* Tables. A DataFrame read from a source is a sequence of rows, each a    *)
(* function from column name to cell. A pivoted DataFrame carries its      *)
(* column order as well.                                                   *)
(***************************************************************************)
Range(seq) == {seq[k] : k \in 1..Len(seq)}

\* Series.unique(): the distinct values in order of first appearance.
RECURSIVE unique(_)
unique(seq) ==
    IF seq = <<>> THEN <<>>
    ELSE LET front == unique(SubSeq(seq, 1, Len(seq) - 1))
             last == seq[Len(seq)]
         IN  IF last \in Range(front) THEN front ELSE Append(front, last)

\* Series.dropna()
dropna(seq) == SelectSeq(seq, LAMBDA v : ~IsNull(v))

Column(df, col) == [k \in 1..Len(df) |-> df[k][col]]

RECURSIVE Sum(_)
Sum(seq) == IF seq = <<>> THEN 0 ELSE Head(seq) + Sum(Tail(seq))

\* Tuples of text compared as Python compares tuples of str.
RECURSIVE TupleLess(_, _)
TupleLess(a, b) ==
    IF a = <<>> \/ b = <<>> THEN a = <<>> /\ b # <<>>
    ELSE IF Head(a) = Head(b) THEN TupleLess(Tail(a), Tail(b))
    ELSE StrLess(Head(a), Head(b))

RECURSIVE SortTuples(_)
SortTuples(S) ==
    IF S = {} THEN <<>>
    ELSE LET least == CHOOSE t \in S : \A u \in S \ {t} : TupleLess(t, u)
         IN  <<least>> \o SortTuples(S \ {least})

\* The labels of month_names_ordered as sort_index(axis=1) orders them.
MonthNamesAlphabetical ==
    <<"April", "August", "December", "February", "January", "July",
      "June", "March", "May", "November", "October", "September">>

IndexTuple(row, index) == [k \in 1..Len(index) |-> row[index[k]]]

\* groupby(keys) drops a row with a null in any key (index or bucket).
HasNullKey(row, index, columns) ==
    \/ \E k \in 1..Len(index) : IsNull(row[index[k]])
    \/ row[columns] = NullLabel

\* The aggregation of the values column over one group: 'sum', 'count' (the
\* non-null values) and Series.nunique() (the distinct non-null values).
aggregate(group, values, aggfunc) ==
    IF aggfunc = "sum" THEN Sum(Column(group, values))
    ELSE IF aggfunc = "count" THEN Len(dropna(Column(group, values)))
    ELSE Cardinality(Range(dropna(Column(group, values))))

\* DataFrame.pivot_table(index, columns, values, aggfunc, fill_value=0)
\*   .reset_index()
pivot_table(df, index, columns, values, aggfunc) ==
    LET kept == SelectSeq(df, LAMBDA row : ~HasNullKey(row, index, columns))
        keys == {IndexTuple(kept[k], index) : k \in 1..Len(kept)}
        labels == {kept[k][columns] : k \in 1..Len(kept)}
        group(t, l) ==
            SelectSeq(kept, LAMBDA row : IndexTuple(row, index) = t /\ row[columns] = l)
        sorted == SortTuples(keys)
        position(col) == CHOOSE k \in 1..Len(index) : index[k] = col
    IN  [columns |-> index \o SelectSeq(MonthNamesAlphabetical, LAMBDA l : l \in labels),
         rows |-> [k \in 1..Len(sorted) |->
                    [col \in Range(index) \cup labels |->
                        IF col \in Range(index) THEN sorted[k][position(col)]
                        ELSE IF group(sorted[k], col) = <<>> THEN 0
                        ELSE aggregate(group(sorted[k], col), values, aggfunc)]]]

EmptyFrame == [columns |-> <<>>, rows |-> <<>>]

(***************************************************************************)
(* Worksheets. A sheet is the dictionary of its non-empty cells, keyed by  *)
(* <<row, column>>; a workbook is a record of sheets.                      *)
(***************************************************************************)
\* A cell holds text (data_type 's'), a number ('n') or a formula ('f'); the
\* field of its type carries the value and the other fields are at rest.
TextCell(text) == [data_type |-> "s", s |-> text, n |-> 0, f |-> <<>>]
NumCell(number) == [data_type |-> "n", s |-> <<>>, n |-> number, f |-> <<>>]
FormulaCell(tokens) == [data_type |-> "f", s |-> <<>>, n |-> 0, f |-> tokens]

IsBlank(sheet, r, c) == <<r, c>> \notin DOMAIN sheet

SetCells(sheet, written) ==
    [rc \in DOMAIN sheet \cup DOMAIN written |->
        IF rc \in DOMAIN written THEN written[rc] ELSE sheet[rc]]

\* forecastTemplate.py:23-27
_clear_excel_range(sheet, start_row, max_col_idx, clear_until_row) ==
    [rc \in {x \in DOMAIN sheet :
                ~(/\ x[1] \in start_row..clear_until_row
                  /\ x[2] \in 3..(max_col_idx + 2))} |-> sheet[rc]]

\* forecastTemplate.py:241-243: row r_idx (from 0) at data_start_row + r_idx,
\* value c_idx (from 0) at column c_idx + 3.
PasteRows(sheet, start_row, data_to_paste) ==
    SetCells(sheet,
        [rc \in {<<start_row + k - 1, j + 2>> :
                    k \in 1..Len(data_to_paste),
                    j \in 1..(IF data_to_paste = <<>> THEN 0 ELSE Len(data_to_paste[1]))}
            |-> data_to_paste[rc[1] - start_row + 1][rc[2] - 2]])

(***************************************************************************)
(* template_forecast_generator (forecastTemplate.py:29-335).               *)
(***************************************************************************)
data_start_row == 8

fixed_identifier_columns_expenses ==
    <<"company", "lineP&L", "centroCosto", "description", "cuentaContable",
      "descriptionCuentaContable">>

fixed_identifier_columns_headcount ==
    <<"company", "centroCosto", "description", "jobGeneral">>

id_vars_for_pivot_expenses ==
    fixed_identifier_columns_expenses \o <<"mainOwner", "subOwner">>

headcount_pivot_index ==
    fixed_identifier_columns_headcount \o <<"mainOwner", "subOwner">>

ROP == <<"R", "O", "P">>
FLXTECH == <<"F", "L", "X", "T", "E", "C", "H">>

\* The Access table fullDetailedP&L: the rows the expense query can return.
ExpenseRow(company, cuentaContable, mainOwner, subOwner, periodo_, saldoPEN) ==
    ("company" :> company) @@ ("lineP&L" :> <<"L", "1">>)
    @@ ("centroCosto" :> <<"C", "1">>) @@ ("description" :> <<"a", "b">>)
    @@ ("cuentaContable" :> cuentaContable)
    @@ ("descriptionCuentaContable" :> <<"t", "a", "b">>)
    @@ ("mainOwner" :> mainOwner) @@ ("subOwner" :> subOwner)
    @@ ("periodo" :> periodo_) @@ ("saldoPEN" :> saldoPEN)

ExpenseRowPool ==
    { ExpenseRow(FLXTECH, <<"6", "3", "1">>, <<"M">>, <<"A", "B">>,
                 Timestamp(2023, 4, 7), 5),
      ExpenseRow(ROP, <<"6", "3", "1">>, <<"M">>, <<"A", "B">>,
                 Timestamp(2023, 1, 31), -3),
      ExpenseRow(FLXTECH, <<"6", "3", "1">>, <<"M">>, <<"A", "B">>,
                 Timestamp(2024, 1, 15), 4),
      ExpenseRow(FLXTECH, <<"6", "3", "1">>, <<"N">>, <<"A", "B">>,
                 Timestamp(2023, 12, 31), 2),
      ExpenseRow(FLXTECH, <<"6", "3", "1">>, <<"N">>, <<"A", "/", "B">>,
                 Timestamp(2023, 4, 30), 7),
      ExpenseRow(FLXTECH, <<"6", "3", "1">>, Null, <<"A", "B">>,
                 Timestamp(2023, 1, 15), 6),
      ExpenseRow(FLXTECH, <<"6", "3", "1">>, <<"M">>, Null,
                 Timestamp(2023, 1, 15), 1),
      ExpenseRow(FLXTECH, <<"6", "2", "1">>, <<"M">>, <<"Z">>,
                 Timestamp(2023, 4, 7), 9) }

\* The Access table headcountFull.
HeadcountRow(nameID, subOwner, period) ==
    ("company" :> FLXTECH) @@ ("period" :> period) @@ ("nameID" :> nameID)
    @@ ("centroCosto" :> <<"C", "1">>) @@ ("jobGeneral" :> <<"S">>)
    @@ ("description" :> <<"a", "b">>) @@ ("mainOwner" :> <<"M">>)
    @@ ("subOwner" :> subOwner)

HeadcountRowPool ==
    { HeadcountRow(<<"E", "1">>, <<"A", "B">>, Timestamp(2023, 1, 31)),
      HeadcountRow(<<"E", "2">>, <<"A", "B">>, Timestamp(2023, 4, 30)),
      HeadcountRow(Null, <<"A", "B">>, Timestamp(2023, 1, 31)),
      HeadcountRow(<<"E", "1">>, <<"A", "B">>, Timestamp(2024, 1, 2)) }

RECURSIVE TablesUpTo(_, _)
TablesUpTo(pool, n) ==
    IF n = 0 THEN {<<>>}
    ELSE LET shorter == TablesUpTo(pool, n - 1)
         IN  shorter \cup {Append(t, row) : t \in shorter, row \in pool}

\* The template workbook: the two sheets with rows left over from the run
\* the template was saved from, and the owner labels in D4 and D5.
TemplateStaleRows == 3

MaxSalesRows == 2
LastMonthColumn(fixed_identifier_columns) ==
    2 + Len(fixed_identifier_columns) + Len(month_names_ordered)
Stale == TextCell(<<"stale">>)

\* A data block of the template: the identifier columns and the twelve month
\* columns from column C, on the rows from data_start_row.
TemplateSheet(fixed_identifier_columns) ==
    [rc \in {<<r, c>> : r \in data_start_row..(data_start_row + TemplateStaleRows - 1),
                         c \in 3..LastMonthColumn(fixed_identifier_columns)} |-> Stale]

excel_template ==
    [forecastExpenses |->
        SetCells(TemplateSheet(fixed_identifier_columns_expenses),
                 (<<4, 4>> :> Stale) @@ (<<5, 4>> :> Stale)),
     forecastHeadcount |-> TemplateSheet(fixed_identifier_columns_headcount)]

\* forecastTemplate.py:58-59: the sheets the function looks up by name.
RequiredSheets == {"forecastExpenses", "forecastHeadcount"}

\* shutil.copy(excel_template_path, output_filepath): the copy holds the
\* sheets the template holds.
TemplateCopy(sheetnames) == [name \in sheetnames |-> excel_template[name]]

VersionTokens == {<<"6", "+", "6">>}

ForecastLocals ==
    /\ user_forecast_version = <<>>
    /\ df_expenses = <<>>
    /\ df_headcount = <<>>
    /\ df_unpivoted_expenses_full = EmptyFrame
    /\ df_pivoted_headcount_full = EmptyFrame
    /\ unique_subowners = <<>>
    /\ fc_i = 0
    /\ subowner = Null
    /\ df_filtered_expenses = <<>>
    /\ final_data_table_columns_order_expenses = <<>>
    /\ df_pivoted_filtered_headcount = <<>>
    /\ final_data_table_columns_order_headcount = <<>>
    /\ fc_log = <<>>
    /\ excel_app_workbooks = {}

ForecastLocalsInit ==
    /\ ForecastLocals
    /\ forecast_output_folder = <<>>
    /\ excel_template_sheetnames = RequiredSheets

ForecastInit ==
    /\ fc_pc = "prompt"
    /\ access_db \in [expenses : TablesUpTo(ExpenseRowPool, MaxExpenseRows),
                      headcount : TablesUpTo(HeadcountRowPool, MaxHeadcountRows)]
    /\ ForecastLocalsInit

ForecastIdle ==
    /\ fc_pc = "idle"
    /\ access_db = [expenses |-> <<>>, headcount |-> <<>>]
    /\ ForecastLocalsInit

\* forecastTemplate.py:9-21
_apply_company_replacements(df) ==
    [k \in 1..Len(df) |->
        IF df[k]["company"] = ROP THEN [df[k] EXCEPT !["company"] = FLXTECH] ELSE df[k]]

\* forecastTemplate.py:130
FilterCuentaContable(df) ==
    SelectSeq(df, LAMBDA row : ~startswith(row["cuentaContable"], <<"6", "2">>))

\* forecastTemplate.py:135-137 / 155-157: the date column normalized to the
\* month end, and the month-name column derived from it.
NormalizeDateColumn(df, date_col, name_col) ==
    [k \in 1..Len(df) |->
        (name_col :> month_name(NormalizePeriod(df[k][date_col])))
        @@ [df[k] EXCEPT ![date_col] = NormalizePeriod(df[k][date_col])]]

\* forecastTemplate.py:140-146
PivotExpenses(df) ==
    pivot_table(df, id_vars_for_pivot_expenses, "periodo_month_name", "saldoPEN", "sum")

\* forecastTemplate.py:160-166
PivotHeadcount(df) ==
    pivot_table(df, headcount_pivot_index, "period_month_name", "nameID", "count")

\* forecastTemplate.py:171
UniqueSubowners(frame) == unique(Column(frame.rows, "subOwner"))

\* forecastTemplate.py:210 and 250-252: the rows of one subOwner.
\* A null cell equals nothing (NaN == x is False).
RowsOfSubownerBySanitizedName(rows, key) ==
    SelectSeq(rows, LAMBDA row :
        /\ ~IsNull(row["subOwner"])
        /\ SanitizeSubowner(row["subOwner"]) = SanitizeSubowner(key))

RowsOfSubowner(rows, key) ==
    SelectSeq(rows, LAMBDA row : ~IsNull(row["subOwner"]) /\ row["subOwner"] = key)

\* forecastTemplate.py:224 and 257
ExistingMonthColumnsAlphabetical(frame) ==
    SelectSeq(MonthNamesAlphabetical, LAMBDA col : col \in Range(frame.columns))

ExistingMonthColumns(frame) ==
    SelectSeq(month_names_ordered, LAMBDA col : col \in Range(frame.columns))

\* forecastTemplate.py:226/235 and 259/265: df[columns].values.tolist()
\* A month column holds numbers and an identifier column holds text.
DataToPaste(rows, columns) ==
    [k \in 1..Len(rows) |->
        [j \in 1..Len(columns) |->
            IF columns[j] \in Range(month_names_ordered)
            THEN NumCell(rows[k][columns[j]])
            ELSE TextCell(rows[k][columns[j]])]]

\* ", ".join(map(str, values))
RECURSIVE join(_)
join(values) ==
    IF Len(values) = 1 THEN values[1]
    ELSE values[1] \o <<",", " ">> \o join(Tail(values))

\* forecastTemplate.py:212-220
MainOwnerPicksFirst(rows) ==
    IF rows = <<>> THEN <<"N", "/", "A">> ELSE rows[1]["mainOwner"]

\* forecastTemplate.py:212-220
MainOwnerForCellD4(rows) ==
    LET unique_main_owners_for_subowner == unique(Column(rows, "mainOwner"))
    IN  IF Len(unique_main_owners_for_subowner) > 1
        THEN join(unique_main_owners_for_subowner)
        ELSE IF Len(unique_main_owners_for_subowner) = 1
        THEN unique_main_owners_for_subowner[1]
        ELSE <<"N", "/", "A">>

\* forecastTemplate.py:229-245: the forecastExpenses sheet of one artifact.
WriteExpensesSheet(sheet, key, rows, columns) ==
    PasteRows(
        _clear_excel_range(
            SetCells(sheet, (<<4, 4>> :> TextCell(MainOwnerForCellD4(rows)))
                            @@ (<<5, 4>> :> TextCell(key))),
            data_start_row, Len(columns), data_start_row + 1000),
        data_start_row, DataToPaste(rows, columns))

\* forecastTemplate.py:254-275: the forecastHeadcount sheet of one artifact.
WriteHeadcountSheet(sheet, rows, columns) ==
    IF rows = <<>> THEN sheet
    ELSE PasteRows(
            _clear_excel_range(sheet, data_start_row, Len(columns),
                               data_start_row + 1000),
            data_start_row, DataToPaste(rows, columns))

\* os.path.join(folder, name) then copy/save: the folder maps a file name to
\* the workbook stored under it; writing an existing name replaces the file.
WriteFile(folder, name, workbook) ==
    [f \in DOMAIN folder \cup {name} |-> IF f = name THEN workbook ELSE folder[f]]

\* forecastTemplate.py:49-52
FcPrompt ==
    /\ fc_pc = "prompt"
    /\ \E v \in VersionTokens \cup {<<>>} :
        /\ user_forecast_version' = v
        /\ fc_pc' = IF v = <<>> THEN "done" ELSE "load"
    /\ UNCHANGED <<access_db, df_expenses, df_headcount,
                   df_unpivoted_expenses_full, df_pivoted_headcount_full,
                   unique_subowners, fc_i, subowner, df_filtered_expenses,
                   final_data_table_columns_order_expenses,
                   df_pivoted_filtered_headcount,
                   final_data_table_columns_order_headcount,
                   forecast_output_folder, fc_log, excel_app_workbooks,
                   excel_template_sheetnames>>
    /\ UNCHANGED <<namesVars, dateVars, expenseVars, otherVars>>

\* forecastTemplate.py:99-177: load both tables, transform, pivot, and
\* discover the subOwner values.
FcLoadAndTransform ==
    /\ fc_pc = "load"
    /\ LET expenses ==
               NormalizeDateColumn(
                   FilterCuentaContable(_apply_company_replacements(access_db.expenses)),
                   "periodo", "periodo_month_name")
           headcount ==
               NormalizeDateColumn(_apply_company_replacements(access_db.headcount),
                                   "period", "period_month_name")
       IN  /\ df_expenses' = expenses
           /\ df_headcount' = headcount
           /\ df_unpivoted_expenses_full' = PivotExpenses(expenses)
           /\ df_pivoted_headcount_full' = PivotHeadcount(headcount)
           /\ unique_subowners' = UniqueSubowners(PivotExpenses(expenses))
           /\ fc_pc' = IF Len(UniqueSubowners(PivotExpenses(expenses))) = 0
                       THEN "done" ELSE "loop"
    /\ fc_i' = 1
    /\ UNCHANGED <<access_db, user_forecast_version, subowner, df_filtered_expenses,
                   final_data_table_columns_order_expenses,
                   df_pivoted_filtered_headcount,
                   final_data_table_columns_order_headcount,
                   forecast_output_folder, fc_log, excel_app_workbooks,
                   excel_template_sheetnames>>
    /\ UNCHANGED <<namesVars, dateVars, expenseVars, otherVars>>

\* print(...) of a warning or an error: what it reports and the key value
\* its text names (Null when it names none).
LogEntry(level, event, key) == [level |-> level, event |-> event, key |-> key]

\* forecastTemplate.py:214-216
MainOwnerWarning(rows, key) ==
    IF Len(unique(Column(rows, "mainOwner"))) > 1
    THEN <<LogEntry("warning", "multiple mainOwners", key)>>
    ELSE <<>>

\* The ways the body of the loop can end for one subOwner: the artifact is
\* saved, or shutil.copy raises (196-201), or the openpyxl stage raises at
\* workbook.save (204-283), or the Excel automation raises (285-316), either
\* at Workbooks.Open (287) or at a later call on the opened workbook such as
\* RefreshAll (307) or Save (311).
ForecastOutcomes ==
    {"saved", "copy raises", "openpyxl raises", "Workbooks.Open raises",
     "win32com raises"}

\* forecastTemplate.py:287-316: excel_app.Workbooks after the automation of
\* one file. Workbooks.Open (287) adds the file; workbook_com.Close (312)
\* removes it and is reached only when no earlier call raised; the except
\* clause (315-316) prints and closes nothing.
WorkbooksAfter(open, output_filepath, outcome) ==
    IF outcome = "win32com raises" THEN open \cup {output_filepath} ELSE open

\* forecastTemplate.py:229 and 262: workbook[name] raises KeyError, inside
\* the openpyxl try block, when the copy has no sheet of that name; the
\* headcount sheet is looked up only when the subOwner has headcount rows.
SheetLookupRaises(sheetnames, headcount_rows) ==
    \/ "forecastExpenses" \notin sheetnames
    \/ headcount_rows # <<>> /\ "forecastHeadcount" \notin sheetnames

\* The except clauses of the loop body: each prints the error with the key.
ErrorPrinted(outcome, key) ==
    IF outcome = "saved" THEN <<>> ELSE <<LogEntry("error", outcome, key)>>

\* for ... in ...: after the body, or after a continue in an except clause,
\* the loop goes on with the next of the n partition values.
NextPartitionStopsAtError(i, n, outcome) ==
    IF outcome = "saved" THEN i + 1 ELSE n + 1

NextPartition(i, n, outcome) == i + 1

\* forecastTemplate.py:189-316: the loop body for one subOwner, ending in one
\* of `outcomes`.
FcLoopBody(outcomes) ==
    /\ fc_pc = "loop"
    /\ fc_i <= Len(unique_subowners)
    /\ \E io \in outcomes :
        LET key == unique_subowners[fc_i]
            output_filepath ==
                ForecastFileName(user_forecast_version, SanitizeSubowner(key))
            expenses_rows == RowsOfSubowner(df_unpivoted_expenses_full.rows, key)
            expenses_columns ==
                fixed_identifier_columns_expenses
                    \o ExistingMonthColumns(df_unpivoted_expenses_full)
            headcount_rows == RowsOfSubowner(df_pivoted_headcount_full.rows, key)
            headcount_columns ==
                fixed_identifier_columns_headcount
                    \o ExistingMonthColumns(df_pivoted_headcount_full)
            written ==
                [forecastExpenses |->
                     WriteExpensesSheet(excel_template.forecastExpenses, key,
                                        expenses_rows, expenses_columns),
                 forecastHeadcount |->
                     WriteHeadcountSheet(excel_template.forecastHeadcount,
                                         headcount_rows, headcount_columns)]
            outcome ==
                IF io # "copy raises"
                   /\ SheetLookupRaises(excel_template_sheetnames, headcount_rows)
                THEN "openpyxl raises" ELSE io
        IN  /\ subowner' = key
            /\ IF outcome = "copy raises"
               THEN /\ UNCHANGED <<df_filtered_expenses,
                                   final_data_table_columns_order_expenses,
                                   df_pivoted_filtered_headcount,
                                   final_data_table_columns_order_headcount,
                                   forecast_output_folder, excel_app_workbooks>>
                    /\ fc_log' = fc_log \o ErrorPrinted(outcome, key)
               ELSE /\ df_filtered_expenses' = expenses_rows
                    /\ final_data_table_columns_order_expenses' = expenses_columns
                    /\ df_pivoted_filtered_headcount' = headcount_rows
                    /\ final_data_table_columns_order_headcount' =
                           IF headcount_rows = <<>>
                           THEN final_data_table_columns_order_headcount
                           ELSE headcount_columns
                    /\ forecast_output_folder' =
                           WriteFile(forecast_output_folder, output_filepath,
                                     IF outcome = "openpyxl raises"
                                     THEN TemplateCopy(excel_template_sheetnames)
                                     ELSE written)
                    /\ fc_log' = fc_log \o MainOwnerWarning(expenses_rows, key)
                                        \o ErrorPrinted(outcome, key)
                    /\ excel_app_workbooks' =
                           WorkbooksAfter(excel_app_workbooks, output_filepath,
                                          outcome)
            /\ fc_i' = NextPartition(fc_i, Len(unique_subowners), outcome)
    /\ UNCHANGED <<fc_pc, access_db, user_forecast_version, df_expenses, df_headcount,
                   df_unpivoted_expenses_full, df_pivoted_headcount_full,
                   unique_subowners, excel_template_sheetnames>>
    /\ UNCHANGED <<namesVars, dateVars, expenseVars, otherVars>>

\* The loop body when every file operation succeeds.
FcProcessSubowner == FcLoopBody({"saved"})

\* The loop body when any of its stages may raise.
FcProcessSubownerOrRaise == FcLoopBody(ForecastOutcomes)

\* forecastTemplate.py:318-335: the loop is exhausted and the function returns.
FcFinish ==
    /\ fc_pc = "loop"
    /\ fc_i > Len(unique_subowners)
    /\ fc_pc' = "done"
    /\ UNCHANGED <<access_db, user_forecast_version, df_expenses, df_headcount,
                   df_unpivoted_expenses_full, df_pivoted_headcount_full,
                   unique_subowners, fc_i, subowner, df_filtered_expenses,
                   final_data_table_columns_order_expenses,
                   df_pivoted_filtered_headcount,
                   final_data_table_columns_order_headcount,
                   forecast_output_folder, fc_log, excel_app_workbooks,
                   excel_template_sheetnames>>
    /\ UNCHANGED <<namesVars, dateVars, expenseVars, otherVars>>

(***************************************************************************)
(* Formulas. A formula is its sequence of tokens: cell references, each    *)
(* with a relative or absolute ($) column and row, and literal text.       *)
(* openpyxl's Translator(formula, origin).translate_formula(dest) shifts   *)
(* every relative coordinate by the offset from origin to dest.            *)
(***************************************************************************)
RefToken(col, row, col_abs, row_abs) ==
    [kind |-> "ref", col |-> col, row |-> row, col_abs |-> col_abs,
     row_abs |-> row_abs, text |-> <<>>]

LitToken(text) ==
    [kind |-> "lit", col |-> 0, row |-> 0, col_abs |-> FALSE, row_abs |-> FALSE,
     text |-> text]

TranslateShiftsAbsolute(tokens, origin, dest) ==
    [k \in 1..Len(tokens) |->
        IF tokens[k].kind = "ref"
        THEN [tokens[k] EXCEPT !.row = @ + (dest[1] - origin[1]),
                               !.col = @ + (dest[2] - origin[2])]
        ELSE tokens[k]]

translate_formula(tokens, origin, dest) ==
    [k \in 1..Len(tokens) |->
        IF tokens[k].kind = "ref"
        THEN [tokens[k] EXCEPT
                 !.row = IF tokens[k].row_abs THEN @ ELSE @ + (dest[1] - origin[1]),
                 !.col = IF tokens[k].col_abs THEN @ ELSE @ + (dest[2] - origin[2])]
        ELSE tokens[k]]

(***************************************************************************)
(* process_expense_reports (main.py:32-289).                               *)
(***************************************************************************)
formula_start_row == 2
start_row_for_data == 2
formula_cols == <<13, 14, 15, 16>>

\* The 16 columns A to P of the dataRaw sheet: the 12 data columns written
\* back (Saldo Soles in K, lineP&L in L) and the four formula columns.
dataRaw_columns ==
    <<"A", "B", "C", "D", "E", "F", "G", "H", "I", "J", "Saldo Soles", "lineP&L",
      "helper", "owner", "subOwner", "centroCostoDescrip">>

DataRawRow(owner_value, saldo) ==
    [col \in Range(dataRaw_columns) |->
        IF col = "owner" THEN owner_value
        ELSE IF col = "Saldo Soles" THEN saldo
        ELSE <<"a">>]

DataRawRowPool ==
    { DataRawRow(<<"A", " ", "B">>, 5),
      DataRawRow(<<"A", "_", "B">>, 7),
      DataRawRow(<<"A", " ", "B">>, -2),
      DataRawRow(Null, 1),
      DataRawRow(<<"Z">>, 3) }

\* Template formulas of row 2: =$A$1*2, =C2*2, =$K2+L$1, =SUM(A2:B2).
FormulaAbsolute == <<LitToken(<<"=">>), RefToken(1, 1, TRUE, TRUE), LitToken(<<"*", "2">>)>>
FormulaRelative == <<LitToken(<<"=">>), RefToken(3, 2, FALSE, FALSE), LitToken(<<"*", "2">>)>>
FormulaMixed ==
    <<LitToken(<<"=">>), RefToken(11, 2, TRUE, FALSE), LitToken(<<"+">>),
      RefToken(12, 1, FALSE, TRUE)>>
FormulaSum ==
    <<LitToken(<<"=", "S", "U", "M", "(">>), RefToken(1, 2, FALSE, FALSE),
      LitToken(<<":">>), RefToken(2, 2, FALSE, FALSE), LitToken(<<")">>)>>

RawDataTable(last_row) ==
    [name |-> "rawData",
     ref |-> [first_col |-> 1, first_row |-> 1, last_col |-> 16, last_row |-> last_row]]

\* The template workbooks the run may be given: the header row, the rows left
\* over in A to L, the row-2 cells of M to P (formulas, or a plain value in P),
\* with or without an Excel table already named rawData.
ExpenseTemplate(all_formulas, has_table) ==
    [sheetnames |-> <<"ExpenseReport", "dataContable", "cecoOwner", "dummySheet">>,
     dataContable |->
        [rc \in {<<r, c>> : r \in 1..(1 + TemplateStaleRows), c \in 1..12} |-> Stale]
        @@ (<<2, 13>> :> FormulaCell(FormulaAbsolute))
        @@ (<<2, 14>> :> FormulaCell(FormulaRelative))
        @@ (<<2, 15>> :> FormulaCell(FormulaMixed))
        @@ (<<2, 16>> :> IF all_formulas THEN FormulaCell(FormulaSum) ELSE Stale),
     tables |-> IF has_table THEN <<RawDataTable(1 + TemplateStaleRows)>> ELSE <<>>,
     cecoOwner |->
        << <<<<"mainOwner">>, <<"centroCosto">>>>,
           <<<<"a", " ", "b", " ">>, <<"C", "1">>>>,
           <<<<"Z">>, <<"C", "2">>>> >>,
     ExpenseReport |-> <<>>]

ExpenseTemplates == {ExpenseTemplate(a, t) : a \in BOOLEAN, t \in BOOLEAN}

\* A template workbook whose sheet dataContable was renamed.
ExpenseTemplateWithoutSheet ==
    [ExpenseTemplate(TRUE, FALSE) EXCEPT
        !.sheetnames = <<"ExpenseReport", "cecoOwner", "dummySheet">>]

PeriodTokens == {<<"2", "3", "_", "Q", "4">>}

NoFormula == <<>>

ExpenseLocals ==
    /\ report_period = <<>>
    /\ df_data_raw_original = <<>>
    /\ unique_owners = <<>>
    /\ formulas_to_copy = [col \in Range(formula_cols) |-> NoFormula]
    /\ ex_i = 0
    /\ owner = Null
    /\ df_filtered_for_owner = <<>>
    /\ ex_log = <<>>

ExpenseLocalsInit ==
    /\ ExpenseLocals
    /\ output_directory = <<>>

TableContainers == {"list", "TableList"}

ExpenseInit ==
    /\ ex_pc = "prompt"
    /\ original_file \in TablesUpTo(DataRawRowPool, MaxOwnerRows)
    /\ template_file \in ExpenseTemplates
    /\ openpyxl_tables \in TableContainers
    /\ ExpenseLocalsInit

ExpenseIdle ==
    /\ ex_pc = "idle"
    /\ original_file = <<>>
    /\ template_file = ExpenseTemplate(FALSE, FALSE)
    /\ openpyxl_tables = "list"
    /\ ExpenseLocalsInit

\* Worksheet.max_row
max_row(sheet) ==
    IF DOMAIN sheet = {} THEN 1
    ELSE CHOOSE r \in {rc[1] : rc \in DOMAIN sheet} :
            \A rc \in DOMAIN sheet : rc[1] <= r

\* str.lower()
LowerOf ==
    ("A" :> "a") @@ ("B" :> "b") @@ ("C" :> "c") @@ ("E" :> "e") @@ ("F" :> "f")
    @@ ("H" :> "h") @@ ("L" :> "l") @@ ("M" :> "m") @@ ("N" :> "n")
    @@ ("O" :> "o") @@ ("P" :> "p") @@ ("Q" :> "q") @@ ("R" :> "r")
    @@ ("S" :> "s") @@ ("T" :> "t") @@ ("X" :> "x") @@ ("Z" :> "z")

lower(text) ==
    [k \in 1..Len(text) |->
        IF text[k] \in DOMAIN LowerOf THEN LowerOf[text[k]] ELSE text[k]]

\* main.py:132-178: the cecoOwner sheet keeps its header and the rows whose
\* mainOwner equals the owner, compared stripped and in lower case.
FilterCecoOwner(ws_ceco_owner, key) ==
    IF Len(ws_ceco_owner) <= 1 THEN ws_ceco_owner
    ELSE <<ws_ceco_owner[1]>> \o
         SelectSeq(Tail(ws_ceco_owner),
                   LAMBDA row : lower(strip(row[1])) = lower(strip(key)))

\* main.py:183-187: columns A to L cleared from row 2 to the sheet's last row.
ClearDataColumns(ws_data) ==
    [rc \in {x \in DOMAIN ws_data :
                ~(x[1] \in 2..max_row(ws_data) /\ x[2] \in 1..12)} |-> ws_data[rc]]

\* main.py:191-212: the headers in row 1 and the owner's rows from row 2.
WriteHeadersAndData(ws_data, rows) ==
    SetCells(ws_data,
        [rc \in {<<r, c>> : r \in 1..(1 + Len(rows)), c \in 1..12} |->
            IF rc[1] = 1 THEN TextCell(<<dataRaw_columns[rc[2]]>>)
            ELSE IF dataRaw_columns[rc[2]] = "Saldo Soles"
                 THEN NumCell(rows[rc[1] - 1][dataRaw_columns[rc[2]]])
                 ELSE TextCell(rows[rc[1] - 1][dataRaw_columns[rc[2]]])])

\* main.py:215-217
last_data_row(num_rows_to_write) ==
    IF num_rows_to_write = 0 THEN 1
    ELSE start_row_for_data + num_rows_to_write - 1

\* main.py:215-231
CopyFormulasDown(ws_data, formulas, num_rows_to_write) ==
    SetCells(ws_data,
        [rc \in {<<r, c>> : r \in formula_start_row..last_data_row(num_rows_to_write),
                             c \in {col \in Range(formula_cols) : formulas[col] # NoFormula}}
            |-> FormulaCell(translate_formula(formulas[rc[2]],
                                              <<formula_start_row, rc[2]>>, rc))])

\* main.py:235-259
RedefineTable(tables, num_rows_to_write) ==
    Append(SelectSeq(tables, LAMBDA table_entry : table_entry.name # "rawData"),
           RawDataTable(IF num_rows_to_write = 0 THEN 1
                        ELSE last_data_row(num_rows_to_write)))

\* main.py:79-94
PreReadFormulas(template) ==
    [col \in Range(formula_cols) |->
        IF /\ <<formula_start_row, col>> \in DOMAIN template.dataContable
           /\ template.dataContable[<<formula_start_row, col>>].data_type = "f"
        THEN template.dataContable[<<formula_start_row, col>>].f
        ELSE NoFormula]

\* main.py:116
RowsOfOwner(df, key) ==
    SelectSeq(df, LAMBDA row : ~IsNull(row["owner"]) /\ row["owner"] = key)

\* main.py:67
UniqueOwners(df) == unique(dropna(Column(df, "owner")))

\* main.py:123-280: the workbook saved for one owner.
ProjectOwner(template, key, rows, formulas) ==
    [sheetnames |-> SelectSeq(template.sheetnames, LAMBDA name : name # "dummySheet"),
     dataContable |->
        CopyFormulasDown(
            WriteHeadersAndData(ClearDataColumns(template.dataContable), rows),
            formulas, Len(rows)),
     tables |-> RedefineTable(template.tables, Len(rows)),
     cecoOwner |-> FilterCecoOwner(template.cecoOwner, key),
     ExpenseReport |->
        SetCells(template.ExpenseReport,
                 <<2, 3>> :> TextCell(<<"r", "a", "w", "D", "a", "t", "a">>))]

\* main.py:39-42
ExPrompt ==
    /\ ex_pc = "prompt"
    /\ \E token \in PeriodTokens \cup {<<>>} :
        /\ report_period' = token
        /\ ex_pc' = IF token = <<>> THEN "done" ELSE "read"
    /\ UNCHANGED <<original_file, template_file, df_data_raw_original, unique_owners,
                   formulas_to_copy, ex_i, owner, df_filtered_for_owner,
                   output_directory, ex_log, openpyxl_tables>>
    /\ UNCHANGED <<namesVars, dateVars, forecastVars, otherVars>>

\* main.py:50-107: read dataRaw, discover the owners (return at 70 when
\* there are none), pre-read the template's formulas (KeyError printed and
\* return at 98-101 when the template has no sheet dataContable).
ExReadInputs ==
    /\ ex_pc = "read"
    /\ df_data_raw_original' = original_file
    /\ unique_owners' = UniqueOwners(original_file)
    /\ IF UniqueOwners(original_file) = <<>>
       THEN /\ ex_pc' = "done"
            /\ UNCHANGED formulas_to_copy
            /\ UNCHANGED ex_log
       ELSE IF "dataContable" \notin Range(template_file.sheetnames)
       THEN /\ ex_pc' = "aborted"
            /\ ex_log' = Append(ex_log, LogEntry("error", "sheet not found", <<>>))
            /\ UNCHANGED formulas_to_copy
       ELSE /\ ex_pc' = "loop"
            /\ formulas_to_copy' = PreReadFormulas(template_file)
            /\ UNCHANGED ex_log
    /\ ex_i' = 1
    /\ UNCHANGED <<original_file, template_file, report_period, owner,
                   df_filtered_for_owner, output_directory, openpyxl_tables>>
    /\ UNCHANGED <<namesVars, dateVars, forecastVars, otherVars>>

\* main.py:248-256: the entries of ws._tables named rawData are collected and
\* handed to ws._tables.remove. A list holds Table objects and list.remove
\* takes them out; iterating a TableList yields the names, and a TableList,
\* a dict, has no remove: the call raises AttributeError.
RemoveRaises(tables, container) ==
    /\ container = "TableList"
    /\ \E k \in 1..Len(tables) : tables[k].name = "rawData"

\* The ways the body of the loop can end for one owner: the artifact is
\* saved, shutil.copy2 raises (125), ws._tables.remove raises (256), or
\* wb.save raises (280).
ExpenseOutcomes == {"saved", "copy raises", "save raises"}

\* main.py:109-287: the loop body for one owner, its file operations ending
\* in one of `outcomes`.
ExLoopBody(outcomes) ==
    /\ ex_pc = "loop"
    /\ ex_i <= Len(unique_owners)
    /\ \E io \in outcomes :
        LET key == unique_owners[ex_i]
            new_file_path == ExpenseFileName(CleanOwnerName(key), report_period)
            rows == RowsOfOwner(df_data_raw_original, key)
            outcome ==
                IF io # "copy raises" /\ RemoveRaises(template_file.tables, openpyxl_tables)
                THEN "remove raises" ELSE io
        IN  /\ owner' = key
            /\ df_filtered_for_owner' = rows
            /\ output_directory' =
                   IF outcome = "copy raises" THEN output_directory
                   ELSE WriteFile(output_directory, new_file_path,
                            IF outcome = "saved"
                            THEN ProjectOwner(template_file, key, rows, formulas_to_copy)
                            ELSE template_file)
            /\ ex_log' = ex_log \o ErrorPrinted(outcome, key)
            /\ ex_i' = NextPartition(ex_i, Len(unique_owners), outcome)
    /\ UNCHANGED <<ex_pc, original_file, template_file, report_period,
                   df_data_raw_original, unique_owners, formulas_to_copy,
                   openpyxl_tables>>
    /\ UNCHANGED <<namesVars, dateVars, forecastVars, otherVars>>

\* The loop body when every file operation succeeds.
ExProcessOwner == ExLoopBody({"saved"})

\* The loop body when the copy or the save may raise.
ExProcessOwnerOrRaise == ExLoopBody(ExpenseOutcomes)

\* main.py:288-289
ExFinish ==
    /\ ex_pc = "loop"
    /\ ex_i > Len(unique_owners)
    /\ ex_pc' = "done"
    /\ UNCHANGED <<original_file, template_file, report_period, df_data_raw_original,
                   unique_owners, formulas_to_copy, ex_i, owner, df_filtered_for_owner,
                   output_directory, ex_log, openpyxl_tables>>
    /\ UNCHANGED <<namesVars, dateVars, forecastVars, otherVars>>

(***************************************************************************)
(* process_and_alert_client_data (userReport.py): the client report. The   *)
(* function loads the one workbook of the report folder, derives the       *)
(* clients-by-status table and its summary, writes the sheets ALERTS,      *)
(* Summary and Clients by status, reorders them and saves the workbook.    *)
(***************************************************************************)
FIBERLUX_TECH ==
    <<"F", "I", "B", "E", "R", "L", "U", "X", " ", "T", "E", "C",
      "H", " ", "S", "O", "C", "I", "E", "D", "A", "D", " ", "A", "N",
      "O", "N", "I", "M", "A", " ", "C", "E", "R", "R", "A", "D",
      "A">>
NEXTNET ==
    <<"N", "E", "X", "T", "N", "E", "T", " ", "S", ".", "A", ".",
      "C", ".">>
FIBERLUX ==
    <<"F", "I", "B", "E", "R", "L", "U", "X", " ", "S", "O", "C",
      "I", "E", "D", "A", "D", " ", "A", "N", "O", "N", "I", "M", "A",
      " ", "C", "E", "R", "R", "A", "D", "A">>
NXT == <<"N", "X", "T">>
FLX == <<"F", "L", "X">>

\* userReport.py:89-93
empresa_replacements(empresa) ==
    IF empresa = FIBERLUX_TECH THEN FLXTECH
    ELSE IF empresa = NEXTNET THEN NXT
    ELSE IF empresa = FIBERLUX THEN FLX
    ELSE empresa

Activo == <<"A", "c", "t", "i", "v", "o">>
Suspendido == <<"S", "u", "s", "p", "e", "n", "d", "i", "d", "o">>
Instalacion == <<"I", "n", "s", "t", "a", "l", "a", "c", "i", "o", "n">>
Baja == <<"B", "a", "j", "a">>
BajaAdm == <<"B", "a", "j", "a", " ", "A", "d", "m">>
Recurrente == <<"R", "e", "c", "u", "r", "r", "e", "n", "t", "e">>
PagoEnCuotasNextnet == <<"P", "A", "G", "O", " ", "E", "N", " ", "C", "U", "O", "T",
      "A", "S", "-", "N", "E", "X", "T", "N", "E", "T">>
PagoEnCuotasTechYNextnet ==
    <<"P", "A", "G", "O", " ", "E", "N", " ", "C", "U", "O", "T",
      "A", "S", "-", "T", "E", "C", "H", " ", "y", " ", "N", "E", "X",
      "T", "N", "E", "T">>

\* userReport.py:225
desired_empresa_order == <<FLXTECH, NXT, FLX>>

\* userReport.py:236
desired_estado_servicio_order == <<Activo, Suspendido, Instalacion, Baja, BajaAdm>>

\* A data row of the first sheet of the report workbook, with the columns
\* the summary reads.
ClientRow(empresa, equipoventa, estado, cliente, tipo, plantilla) ==
    [Empresa |-> empresa, Equipoventa |-> equipoventa, Cliente |-> cliente] @@
    ("Estado Servicio" :> estado) @@ ("Tipo Servicio" :> tipo) @@
    ("Plantilla Contrato" :> plantilla)

ClientRowPool ==
    {ClientRow(FIBERLUX_TECH, <<"X">>, Activo, <<"c", "1">>, Recurrente, <<"S">>),
     ClientRow(FLXTECH, <<"X">>, Activo, <<"c", "2">>, Recurrente, <<"S">>),
     ClientRow(NXT, <<"Y">>, Baja, <<"c", "2">>, Recurrente, <<"S">>),
     ClientRow(FLX, <<"X">>, Suspendido, <<"c", "1">>, Recurrente, <<"S">>),
     ClientRow(<<"Z", "E", "D">>, <<"Y">>, <<"O", "t", "r", "o">>, <<"c", "1">>,
               Recurrente, <<"S">>),
     ClientRow(<<"A", "B", "C">>, <<"X">>, <<"A", "n", "u", "l", "a", "d", "o">>,
               <<"c", "2">>, Recurrente, <<"S">>),
     ClientRow(FLXTECH, <<"Y">>, Activo, Null, Recurrente, <<"S">>),
     ClientRow(FLXTECH, <<"Y">>, Baja, <<"c", "1">>, Recurrente, <<"S">>),
     ClientRow(NXT, Null, Activo, <<"c", "1">>, Recurrente, <<"S">>),
     ClientRow(NXT, <<"X">>, Activo, <<"c", "3">>, <<"U", "n", "i", "c", "o">>, <<"S">>),
     ClientRow(FLX, <<"Y">>, Activo, <<"c", "3">>, Recurrente, PagoEnCuotasNextnet),
     ClientRow(NXT, <<"X">>, Baja, <<"c", "2">>, <<"U", "n", "i", "c", "o">>, <<"S">>)}

\* A sheet of a workbook: its title, and whether this call created it.
Sheet(title, created) == [title |-> title, created |-> created]

\* The sheet lists the report workbook may hold: the source sheet first, then
\* sheets the function does not know, or a Summary sheet of an earlier run.
ReportSheetLists ==
    {<<<<"Sheet1">>>>,
     <<<<"Sheet1">>, <<"Notes">>>>,
     <<<<"Sheet1">>, <<"Notes">>, <<"Charts">>>>,
     <<<<"Sheet1">>, <<"Summary">>, <<"Notes">>>>}

ClientLocalsInit ==
    /\ wb_sheets = <<>>
    /\ df_original = <<>>
    /\ df_clients_by_status = <<>>
    /\ df_summary = EmptyFrame
    /\ df_filtro1_new = <<>>
    /\ df_filtro2_new = <<>>

ClientInit ==
    /\ cl_pc = "load"
    /\ report_file \in [sheetnames : ReportSheetLists,
                        rows : TablesUpTo(ClientRowPool, MaxClientRows),
                        Summary : {<<>>},
                        ALERTS : {<<>>}]
    /\ ClientLocalsInit

ClientIdle ==
    /\ cl_pc = "idle"
    /\ report_file = [sheetnames |-> <<>>, rows |-> <<>>, Summary |-> <<>>,
                      ALERTS |-> <<>>]
    /\ ClientLocalsInit

\* sorted(values): ascending by code point.
RECURSIVE sorted(_)
sorted(values) ==
    IF values = {} THEN <<>>
    ELSE LET least == CHOOSE v \in values : \A w \in values \ {v} : StrLess(v, w)
         IN  <<least>> \o sorted(values \ {least})

\* userReport.py:227-228 and 238-240:
\* [v for v in desired if v in present] + sorted(v for v in present if v not in desired)
CustomOrderSortsAll(desired, present) == sorted(present)

\* userReport.py:227-228 and 238-240:
\* [v for v in desired if v in present] + sorted(v for v in present if v not in desired)
CustomOrder(desired, present) ==
    SelectSeq(desired, LAMBDA v : v \in present) \o sorted(present \ Range(desired))

\* userReport.py:226-228
final_empresas_sort_order(base) ==
    CustomOrder(desired_empresa_order, Range(Column(base, "Empresa")))

\* userReport.py:237-240
final_estado_servicio_cols_order(base) ==
    CustomOrder(desired_estado_servicio_order, Range(Column(base, "Estado Servicio")))

\* userReport.py:245-246: the groups of groupby([Empresa, Equipoventa, Estado
\* Servicio]); a row with a null key is in no group.
GroupOf(base, empresa, equipoventa, estado) ==
    SelectSeq(base, LAMBDA row :
        /\ row["Empresa"] = empresa
        /\ ~IsNull(row["Equipoventa"]) /\ row["Equipoventa"] = equipoventa
        /\ row["Estado Servicio"] = estado)

\* The (Empresa, Equipoventa) index of the grouped table, sorted by the
\* categorical order of Empresa and then by Equipoventa
\* (userReport.py:245-249): every Empresa category with every Equipoventa.
SummaryIndex(base) ==
    LET empresas == final_empresas_sort_order(base)
        equipos == sorted(Range(dropna(Column(base, "Equipoventa"))))
    IN  [k \in 1..(Len(empresas) * Len(equipos)) |->
            <<empresas[((k - 1) \div Len(equipos)) + 1],
              equipos[((k - 1) % Len(equipos)) + 1]>>]

GrandTotal == <<"G", "r", "a", "n", "d", " ", "T", "o", "t", "a", "l">>

\* The counts of a summary row, in the order of the columns.
CountsOf(row, estados) == [j \in 1..Len(estados) |-> row.counts[estados[j]]]

\* userReport.py:258-261: the rows whose counts are not all zero.
KeepsZeroRows(rows, estados) == rows

\* userReport.py:258-261: the rows whose counts are not all zero.
df_summary_non_zero(rows, estados) ==
    SelectSeq(rows, LAMBDA row : Sum(CountsOf(row, estados)) > 0)

\* userReport.py:264-265: the column-wise sum of the retained rows.
grand_total_row(rows, estados) ==
    [Empresa |-> GrandTotal, Equipoventa |-> <<>>,
     counts |-> [estado \in Range(estados) |->
                    Sum([k \in 1..Len(rows) |-> rows[k].counts[estado]])]]

\* userReport.py:218-274: the summary table. Its columns are Row Labels, the
\* unnamed Equipoventa column and one column per Estado Servicio; a row holds
\* the number of distinct Cliente values of its group under each.
Summary(base) ==
    LET estados == final_estado_servicio_cols_order(base)
        index == SummaryIndex(base)
        counted ==
            [k \in 1..Len(index) |->
                [Empresa |-> index[k][1], Equipoventa |-> index[k][2],
                 counts |-> [estado \in Range(estados) |->
                    aggregate(GroupOf(base, index[k][1], index[k][2], estado),
                              "Cliente", "nunique")]]]
        retained == df_summary_non_zero(counted, estados)
    IN  [columns |-> <<<<"Row Labels">>, <<>>>> \o estados,
         rows |-> Append(retained, grand_total_row(retained, estados))]

\* userReport.py:144-154
ClientsByStatus(df) ==
    SelectSeq(df, LAMBDA row :
        /\ row["Tipo Servicio"] = Recurrente
        /\ row["Plantilla Contrato"]
             \notin {PagoEnCuotasNextnet, PagoEnCuotasTechYNextnet})

\* userReport.py:160
excluded_estados == {Baja, BajaAdm}

\* DataFrame.drop_duplicates(subset=[col]): the first row of each value is
\* kept, missing values counting as one value.
drop_duplicates(rows, col) ==
    SelectSeq([k \in 1..Len(rows) |->
                  [row |-> rows[k],
                   first |-> \A j \in 1..(k - 1) : rows[j][col] # rows[k][col]]],
              LAMBDA entry : entry.first)

Rows(entries) == [k \in 1..Len(entries) |-> entries[k].row]

\* df[cols]
Project(rows, cols) ==
    [k \in 1..Len(rows) |-> [col \in cols |-> rows[k][col]]]

\* userReport.py:163-182: the rows paid in instalments whose service is not
\* cancelled, one per Cliente.
Filtro1(df) ==
    Project(
        Rows(drop_duplicates(
            SelectSeq(df, LAMBDA row :
                /\ row["Plantilla Contrato"]
                      \in {PagoEnCuotasNextnet, PagoEnCuotasTechYNextnet}
                /\ row["Estado Servicio"] \notin excluded_estados),
            "Cliente")),
        {"Empresa", "Estado Servicio", "Cliente", "Equipoventa",
         "Plantilla Contrato"})

\* The variant that leaves the clients of Filtro 1 in.
KeepsFiltro1Clients(rows, clientes_in_filtro1_new) == rows

\* userReport.py:192-193: the rows whose Cliente is in Filtro 1 are taken
\* out, unless Filtro 1 is empty.
ExcludeFiltro1(rows, clientes_in_filtro1_new) ==
    IF clientes_in_filtro1_new = <<>> THEN rows
    ELSE SelectSeq(rows, LAMBDA row :
             row["Cliente"] \notin Range(clientes_in_filtro1_new))

\* userReport.py:185-204: the rows of another service type than Recurrente,
\* without the clients of Filtro 1 and the cancelled services, one per
\* Cliente.
Filtro2(df, clientes_in_filtro1_new) ==
    Project(
        Rows(drop_duplicates(
            SelectSeq(
                ExcludeFiltro1(
                    SelectSeq(df, LAMBDA row : row["Tipo Servicio"] # Recurrente),
                    clientes_in_filtro1_new),
                LAMBDA row : row["Estado Servicio"] \notin excluded_estados),
            "Cliente")),
        {"Empresa", "Estado Servicio", "Cliente", "Equipoventa", "Tipo Servicio"})

\* Workbook.create_sheet(title): the sheet is appended; a title already in
\* use gets the next free number appended (avoid_duplicate_name).
create_sheet(sheets, title) ==
    Append(sheets,
           Sheet(IF \E k \in 1..Len(sheets) : sheets[k].title = <<title>>
                 THEN <<title, "1">> ELSE <<title>>,
                 TRUE))

\* userReport.py:108-116: the source sheet and every sheet of an earlier run
\* are deleted; the sheets just created are kept.
DeleteOldSheets(sheets, initial_source_sheet_name) ==
    SelectSeq(sheets, LAMBDA sheet :
        \/ sheet.created
        \/ sheet.title \notin {initial_source_sheet_name, <<"ALERTS">>,
                               <<"Summary">>, <<"Clients by status">>})

\* list.insert(pos, x), pos counted from 0: a negative pos counts from the
\* end, and a pos outside the list is clamped to its ends.
insert(list, pos, x) ==
    LET n == Len(list)
        from_start == IF pos < 0 THEN pos + n ELSE pos
        at == IF from_start < 0 THEN 0 ELSE IF from_start > n THEN n ELSE from_start
    IN  SubSeq(list, 1, at) \o <<x>> \o SubSeq(list, at + 1, n)

\* Workbook.move_sheet(sheet, offset): idx = index(sheet); del sheets[idx];
\* sheets.insert(idx + offset, sheet).
move_sheet(sheets, k, offset) ==
    LET idx == k - 1
        without == SubSeq(sheets, 1, k - 1) \o SubSeq(sheets, k + 1, Len(sheets))
    IN  insert(without, idx + offset, sheets[k])

\* The position (from 1) of the sheet this call created under `title`.
CreatedSheet(sheets, title) ==
    CHOOSE k \in 1..Len(sheets) :
        sheets[k].created /\ sheets[k].title[1] = title

\* userReport.py:348-351
ReorderSheets(sheets) ==
    LET n == Len(sheets)
        first == move_sheet(sheets, CreatedSheet(sheets, "ALERTS"), -n + 1)
        second == move_sheet(first, CreatedSheet(first, "Summary"), -n + 2)
    IN  move_sheet(second, CreatedSheet(second, "Clients by status"), -n + 3)

\* userReport.py:324-345: the header in row 4 and the rows from row 5, from
\* column B; the Row Labels cell of a row is left empty when it repeats the
\* label of the row above.
WriteSummarySheet(frame) ==
    LET n_cols == Len(frame.columns)
        estados == SubSeq(frame.columns, 3, n_cols)
        label(r) ==
            IF r > 1 /\ frame.rows[r].Empresa # GrandTotal
                     /\ frame.rows[r].Empresa = frame.rows[r - 1].Empresa
            THEN <<>> ELSE frame.rows[r].Empresa
    IN  [rc \in {<<r, c>> : r \in 4..(4 + Len(frame.rows)), c \in 2..(1 + n_cols)} |->
            IF rc[1] = 4 THEN TextCell(frame.columns[rc[2] - 1])
            ELSE IF rc[2] = 2 THEN TextCell(label(rc[1] - 4))
            ELSE IF rc[2] = 3 THEN TextCell(frame.rows[rc[1] - 4].Equipoventa)
            ELSE NumCell(frame.rows[rc[1] - 4].counts[estados[rc[2] - 3]])]
        @@ (<<2, 2>> :> TextCell(<<"S", "U", "M", "M", "A", "R", "Y", ":">>))

\* userReport.py:57-121: the workbook is loaded, the first sheet is read,
\* the Empresa names are abbreviated, the three sheets are created and the
\* source sheet and the sheets of an earlier run are deleted.
ClLoad ==
    /\ cl_pc = "load"
    /\ LET initial_source_sheet_name == report_file.sheetnames[1]
           loaded == [k \in 1..Len(report_file.sheetnames) |->
                         Sheet(report_file.sheetnames[k], FALSE)]
           created == create_sheet(create_sheet(create_sheet(loaded,
                          "ALERTS"), "Summary"), "Clients by status")
       IN  /\ wb_sheets' = DeleteOldSheets(created, initial_source_sheet_name)
           /\ df_original' =
                 [k \in 1..Len(report_file.rows) |->
                     [report_file.rows[k] EXCEPT
                         !["Empresa"] = empresa_replacements(@)]]
    /\ cl_pc' = "prepare"
    /\ UNCHANGED <<report_file, df_clients_by_status, df_summary, df_filtro1_new,
                   df_filtro2_new>>
    /\ UNCHANGED <<namesVars, dateVars, forecastVars, expenseVars, mainVars,
                   salesVars>>

\* userReport.py:122-277: the clients-by-status table, the two alert
\* sections and the summary. The
\* statements are outside every try block: when no row has a complete group
\* key the unstack of the empty grouping either yields an empty table or
\* raises, and a raise ends the call without a save.
ClPrepare ==
    /\ cl_pc = "prepare"
    /\ df_clients_by_status' = ClientsByStatus(df_original)
    /\ df_filtro1_new' = Filtro1(df_original)
    /\ df_filtro2_new' = Filtro2(df_original, Column(df_filtro1_new', "Cliente"))
    /\ \/ /\ df_summary' = Summary(df_clients_by_status')
          /\ cl_pc' = "write"
       \/ /\ SummaryIndex(df_clients_by_status') = <<>>
          /\ df_summary' = df_summary
          /\ cl_pc' = "raised"
    /\ UNCHANGED <<report_file, wb_sheets, df_original>>
    /\ UNCHANGED <<namesVars, dateVars, forecastVars, expenseVars, mainVars,
                   salesVars>>

\* userReport.py:279-358: the sheets are written, reordered and saved.
ClWriteAndSave ==
    /\ cl_pc = "write"
    /\ wb_sheets' = ReorderSheets(wb_sheets)
    /\ report_file' =
          [report_file EXCEPT
              !.sheetnames = [k \in 1..Len(wb_sheets') |-> wb_sheets'[k].title],
              !.Summary = WriteSummarySheet(df_summary),
              !.ALERTS = [filtro1 |-> df_filtro1_new, filtro2 |-> df_filtro2_new]]
    /\ cl_pc' = "done"
    /\ UNCHANGED <<df_original, df_clients_by_status, df_summary, df_filtro1_new,
                   df_filtro2_new>>
    /\ UNCHANGED <<namesVars, dateVars, forecastVars, expenseVars, mainVars,
                   salesVars>>

(***************************************************************************)
(* move_files_to_history (main.py:399-430) and the run of the main script  *)
(* (expenseReport.py:27-51), which archives the expense folder, runs the   *)
(* expense split, refreshes and totals its artifacts, writes the sales     *)
(* report, archives the sales folder and runs the forecast split.          *)
(***************************************************************************)
\* A file left in a folder by an earlier run.
PriorArtifact == [sheetnames |-> <<"prior run">>]

\* A file that is no workbook.
OtherFile == [sheetnames |-> <<>>]

\* os.path.basename(paths['templateExpenseReport'])
ExpenseTemplateName == <<"templateExpenseReport", ".xlsx">>

\* expenseReport.py:48
SalesTemplateName == <<"sales_report_template", ".xlsx">>

\* salesReport.py:44
SalesFileName(period) == period \o <<". SalesReport", ".xlsx">>

\* main.py:417: file_name.endswith(('.xlsx', '.xlsm'))
endswith_xlsx_xlsm(file_name) ==
    file_name # <<>> /\ file_name[Len(file_name)] \in {".xlsx", ".xlsm"}

\* main.py:417: the test that omits the comparison with the template's name.
EligibleIgnoresTemplate(file_name, template_file_name) ==
    endswith_xlsx_xlsm(file_name)

\* main.py:417
Eligible(file_name, template_file_name) ==
    endswith_xlsx_xlsm(file_name) /\ file_name # template_file_name

\* The folder without one file.
RemoveFile(folder, name) == [f \in DOMAIN folder \ {name} |-> folder[f]]

\* The template workbook, where it lies in a working folder.
TemplateFile == [sheetnames |-> <<"template">>]

\* What a file found in a folder at the start holds, by its name.
FoundFile(file_name) ==
    IF file_name \in {ExpenseTemplateName, SalesTemplateName} THEN TemplateFile
    ELSE IF endswith_xlsx_xlsm(file_name) THEN PriorArtifact
    ELSE OtherFile

\* Every folder made of some of the given files.
FoldersOf(files) ==
    {[file_name \in names |-> FoundFile(file_name)] : names \in SUBSET files}

\* What the expense output folder may hold when the script starts: artifacts
\* of earlier runs (one under the name this run will use), a macro workbook,
\* the template, a text file and a backup whose name only contains ".xlsx".
OutputFolderFiles ==
    {ExpenseFileName(<<"Z">>, <<"2", "3", "_", "Q", "4">>),
     <<"macro", ".xlsm">>,
     ExpenseTemplateName,
     <<"notes", ".txt">>,
     <<"old", ".xlsx", ".bak">>}

SalesFolderFiles == {SalesFileName(<<"2", "0", "2", "3", "-", "1", "1">>), SalesTemplateName}

ForecastFolderFiles == {ForecastFileName(<<"5", "+", "7">>, <<"A", "B">>)}

SalesPeriods == {<<"2", "0", "2", "3", "-", "1", "2">>}

MainIdle ==
    /\ main_pc = "idle"
    /\ mv_pc = "idle"
    /\ history_folder = <<>>
    /\ sales_report_path = <<>>
    /\ mv_listing = {}
    /\ mv_before = <<>>
    /\ moved_count = 0
    /\ mv_log = <<>>
    /\ final_total_expense_soles = 0

\* The state in which the main script starts: the three working folders
\* hold whatever earlier runs left, the history folder may hold an archived
\* file of the same name, and each split reads a small source.
MainInit ==
    /\ main_pc = "move expense"
    /\ mv_pc = "start"
    /\ history_folder \in FoldersOf({<<"macro", ".xlsm">>})
    /\ sales_report_path \in FoldersOf(SalesFolderFiles)
    /\ output_directory \in FoldersOf(OutputFolderFiles)
    /\ forecast_output_folder \in FoldersOf(ForecastFolderFiles)
    /\ ex_pc = "prompt"
    /\ original_file \in {<<>>, <<DataRawRow(<<"Z">>, 3)>>,
                           <<DataRawRow(<<"A", " ", "B">>, 5),
                             DataRawRow(<<"A", "_", "B">>, 7)>>}
    /\ template_file = ExpenseTemplate(FALSE, FALSE)
    /\ openpyxl_tables = "list"
    /\ ExpenseLocals
    /\ fc_pc = "prompt"
    /\ access_db = [expenses |-> <<ExpenseRow(FLXTECH, <<"6", "3", "1">>, <<"M">>,
                                               <<"A", "B">>, Timestamp(2023, 4, 7), 5)>>,
                     headcount |-> <<>>]
    /\ ForecastLocals
    /\ excel_template_sheetnames = RequiredSheets
    /\ mv_listing = {}
    /\ mv_before = <<>>
    /\ moved_count = 0
    /\ mv_log = <<>>
    /\ final_total_expense_soles = 0

\* The working folder and the template name of the current call of
\* move_files_to_history (expenseReport.py:39 and :48).
WorkingFolder ==
    IF main_pc = "move expense" THEN output_directory ELSE sales_report_path

template_file_name ==
    IF main_pc = "move expense" THEN ExpenseTemplateName ELSE SalesTemplateName

\* main.py:410-416: the template's base name, the counter and the listing of
\* the working folder. mv_listing holds the names still to be visited.
MvStart ==
    /\ main_pc \in {"move expense", "move sales"}
    /\ mv_pc = "start"
    /\ mv_listing' = DOMAIN WorkingFolder
    /\ mv_before' = WorkingFolder
    /\ moved_count' = 0
    /\ mv_log' = Append(mv_log, LogEntry("info", "starting to move files", <<>>))
    /\ mv_pc' = "visit"
    /\ UNCHANGED <<main_pc, history_folder, sales_report_path>>
    /\ UNCHANGED final_total_expense_soles
    /\ UNCHANGED <<namesVars, dateVars, forecastVars, expenseVars, clientVars,
                   salesVars>>

MoveOutcomes == {"moved", "move raises"}

\* main.py:422-425: the line printed for an eligible file; no error line.
MoveLoggedWithoutError(moved, file_name) ==
    IF moved THEN <<LogEntry("info", "moved", file_name)>> ELSE <<>>

\* main.py:422-425: the line printed for an eligible file.
MoveLogged(moved, file_name) ==
    IF moved THEN <<LogEntry("info", "moved", file_name)>>
    ELSE <<LogEntry("error", "move raises", file_name)>>

\* main.py:416-425: one file of the listing, which os.listdir returns in no
\* particular order. shutil.move replaces a file of the same name in the
\* history folder; when it raises, the error is printed with the file's name
\* and the file stays where it is.
MvVisitFile ==
    /\ mv_pc = "visit"
    /\ \E file_name \in mv_listing :
          \E outcome \in MoveOutcomes :
             LET moved == Eligible(file_name, template_file_name) /\ outcome = "moved"
                 left == IF moved THEN RemoveFile(WorkingFolder, file_name)
                         ELSE WorkingFolder
             IN  /\ ~Eligible(file_name, template_file_name) => outcome = "moved"
                 /\ output_directory' =
                       IF main_pc = "move expense" THEN left ELSE output_directory
                 /\ sales_report_path' =
                       IF main_pc = "move expense" THEN sales_report_path ELSE left
                 /\ history_folder' =
                       IF moved THEN WriteFile(history_folder, file_name,
                                               WorkingFolder[file_name])
                       ELSE history_folder
                 /\ moved_count' = IF moved THEN moved_count + 1 ELSE moved_count
                 /\ mv_log' =
                       IF ~Eligible(file_name, template_file_name) THEN mv_log
                       ELSE mv_log \o MoveLogged(moved, file_name)
                 /\ mv_listing' = mv_listing \ {file_name}
    /\ UNCHANGED <<main_pc, mv_pc, mv_before>>
    /\ UNCHANGED <<ex_pc, original_file, template_file, report_period,
                   df_data_raw_original, unique_owners, formulas_to_copy, ex_i,
                   owner, df_filtered_for_owner, ex_log, openpyxl_tables>>
    /\ UNCHANGED final_total_expense_soles
    /\ UNCHANGED <<namesVars, dateVars, forecastVars, clientVars, salesVars>>

\* main.py:427-431: the closing report.
MvReport ==
    /\ mv_pc = "visit"
    /\ mv_listing = {}
    /\ mv_log' = Append(mv_log,
                        IF moved_count = 0
                        THEN LogEntry("info", "no files found to move", <<>>)
                        ELSE LogEntry("info", "moved files", <<>>))
    /\ mv_pc' = "returned"
    /\ UNCHANGED <<main_pc, history_folder, sales_report_path, mv_listing,
                   mv_before, moved_count>>
    /\ UNCHANGED final_total_expense_soles
    /\ UNCHANGED <<namesVars, dateVars, forecastVars, expenseVars, clientVars,
                   salesVars>>

\* expenseReport.py:39-40: the archive call returned, the expense split
\* starts.
MainStartExpense ==
    /\ main_pc = "move expense"
    /\ mv_pc = "returned"
    /\ main_pc' = "expense"
    /\ UNCHANGED <<mv_pc, history_folder, sales_report_path, mv_listing,
                   mv_before, moved_count, mv_log>>
    /\ UNCHANGED final_total_expense_soles
    /\ UNCHANGED <<namesVars, dateVars, forecastVars, expenseVars, clientVars,
                   salesVars>>

\* main.py:322-323: pd.read_excel(file, sheet_name='dataContable',
\* usecols=["Saldo Soles"]) and Series.sum(): the numbers under the header
\* 'Saldo Soles' of row 1. Reading raises, and the file is skipped (329-332),
\* when the workbook has no such sheet or the sheet no such header.
SaldoSolesColumn == CHOOSE c \in 1..Len(dataRaw_columns) : dataRaw_columns[c] = "Saldo Soles"

ReadRaises(file) ==
    \/ "dataContable" \notin Range(file.sheetnames)
    \/ <<1, SaldoSolesColumn>> \notin DOMAIN file.dataContable
    \/ file.dataContable[<<1, SaldoSolesColumn>>] # TextCell(<<"Saldo Soles">>)

RECURSIVE SumCells(_, _)
SumCells(sheet, cells) ==
    IF cells = {} THEN 0
    ELSE LET rc == CHOOSE x \in cells : TRUE
         IN  sheet[rc].n + SumCells(sheet, cells \ {rc})

current_file_sum(file) ==
    IF ReadRaises(file) THEN 0
    ELSE SumCells(file.dataContable,
                  {rc \in DOMAIN file.dataContable :
                      /\ rc[1] >= 2
                      /\ rc[2] = SaldoSolesColumn
                      /\ file.dataContable[rc].data_type = "n"})

\* main.py:303-334: the sums of the .xlsx and .xlsm files of the folder,
\* the template left out, added up.
RECURSIVE TotalOver(_, _, _)
TotalOver(folder, template_name, names) ==
    IF names = {} THEN 0
    ELSE LET file_name == CHOOSE x \in names : TRUE
         IN  (IF file_name = template_name THEN 0
              ELSE current_file_sum(folder[file_name]))
                 + TotalOver(folder, template_name, names \ {file_name})

calculate_total_saldo_soles(folder, template_name) ==
    TotalOver(folder, template_name,
              {file_name \in DOMAIN folder : endswith_xlsx_xlsm(file_name)})

\* expenseReport.py:41-43: refresh_excel_files_in_folder (main.py:338-396)
\* recalculates and saves each artifact in place, which changes no value
\* written by the split; calculate_total_saldo_soles then reads the folder
\* and the script prints the total.
MainRefreshAndTotal ==
    /\ main_pc = "expense"
    /\ ex_pc \in {"done", "aborted"}
    /\ main_pc' = "sales"
    /\ final_total_expense_soles' =
           calculate_total_saldo_soles(output_directory, ExpenseTemplateName)
    /\ UNCHANGED <<mv_pc, history_folder, sales_report_path, mv_listing,
                   mv_before, moved_count, mv_log>>
    /\ UNCHANGED <<namesVars, dateVars, forecastVars, expenseVars, clientVars,
                   salesVars>>

\* expenseReport.py:46-47: the period is read and process_sales_reports
\* writes "{period}. SalesReport.xlsx" into the sales folder, or returns
\* without a file when no source file yields a table (salesReport.py:68).
MainSales ==
    /\ main_pc = "sales"
    /\ \E typed \in SalesPeriods, written \in BOOLEAN :
          sales_report_path' =
             IF written
             THEN WriteFile(sales_report_path, SalesFileName(typed),
                            [sheetnames |-> <<"rawData">>])
             ELSE sales_report_path
    /\ main_pc' = "move sales"
    /\ mv_pc' = "start"
    /\ UNCHANGED <<history_folder, mv_listing, mv_before, moved_count, mv_log>>
    /\ UNCHANGED final_total_expense_soles
    /\ UNCHANGED <<namesVars, dateVars, forecastVars, expenseVars, clientVars,
                   salesVars>>

\* expenseReport.py:48-51: the archive call returned, the forecast split
\* starts.
MainStartForecast ==
    /\ main_pc = "move sales"
    /\ mv_pc = "returned"
    /\ main_pc' = "forecast"
    /\ UNCHANGED <<mv_pc, history_folder, sales_report_path, mv_listing,
                   mv_before, moved_count, mv_log>>
    /\ UNCHANGED final_total_expense_soles
    /\ UNCHANGED <<namesVars, dateVars, forecastVars, expenseVars, clientVars,
                   salesVars>>

\* expenseReport.py:51: the last call returned.
MainFinish ==
    /\ main_pc = "forecast"
    /\ fc_pc = "done"
    /\ main_pc' = "done"
    /\ UNCHANGED <<mv_pc, history_folder, sales_report_path, mv_listing,
                   mv_before, moved_count, mv_log>>
    /\ UNCHANGED final_total_expense_soles
    /\ UNCHANGED <<namesVars, dateVars, forecastVars, expenseVars, clientVars,
                   salesVars>>

(***************************************************************************)
(* process_sales_reports (salesReport.py). A directory entry is its name   *)
(* (a sequence of tokens, as for the other folders), its Windows file      *)
(* attributes and what pd.read_excel makes of it. A table is the set of    *)
(* its column names and its rows; a numeric cell is a float or NaN.        *)
(***************************************************************************)
Float(v) == [isna |-> FALSE, value |-> v]

NaN == [isna |-> TRUE, value |-> 0]

\* salesReport.py:11
FILE_ATTRIBUTE_HIDDEN == 2

\* salesReport.py:13: what GetFileAttributesW returns when it fails.
INVALID_FILE_ATTRIBUTES == -1

\* salesReport.py:5-17, on Windows (os.startfile at 130 exists nowhere
\* else): attrs & FILE_ATTRIBUTE_HIDDEN, unless the attributes are invalid.
is_hidden_windows(attrs) ==
    /\ attrs # INVALID_FILE_ATTRIBUTES
    /\ (attrs \div FILE_ATTRIBUTE_HIDDEN) % 2 = 1

\* pd.DataFrame()
pd_DataFrame == [columns |-> {}, rows |-> <<>>]

\* DataFrame.empty
empty(df) == df.rows = <<>>

\* salesReport.py:20-30: the table read from the file, or an empty table
\* when pd.read_excel raises.
transform_excel_file(file) ==
    IF file.readable THEN file.df ELSE pd_DataFrame

\* salesReport.py:51
endswith_xlsx(file_name) ==
    file_name # <<>> /\ file_name[Len(file_name)] = ".xlsx"

\* str.replace('.xlsx', '')
replace_xlsx(file_name) == SelectSeq(file_name, LAMBDA t : t # ".xlsx")

\* str.split('-')
RECURSIVE split(_)
split(tokens) ==
    IF "-" \notin Range(tokens) THEN <<tokens>>
    ELSE LET k == CHOOSE j \in 1..Len(tokens) :
                      tokens[j] = "-" /\ \A h \in 1..(j - 1) : tokens[h] # "-"
         IN  <<SubSeq(tokens, 1, k - 1)>> \o split(SubSeq(tokens, k + 1, Len(tokens)))

UNKNOWN == <<"UNKNOWN">>

\* The variant that takes the last segment of any name.
CompanyIsLastSegment(file_name) ==
    LET name_parts == split(replace_xlsx(file_name))
    IN  name_parts[Len(name_parts)]

\* salesReport.py:60-61
company_name(file_name) ==
    LET name_parts == split(replace_xlsx(file_name))
    IN  IF Len(name_parts) > 2 THEN name_parts[Len(name_parts)] ELSE UNKNOWN

\* salesReport.py:63: the column 'company' set to one value in every row.
WithCompany(df, company) ==
    [columns |-> df.columns \cup {"company"},
     rows |-> [k \in 1..Len(df.rows) |-> ("company" :> company) @@ df.rows[k]]]

\* The variant in which an unreadable file empties the batch.
UnreadableResetsBatch(frames, file_name, transformed_df) ==
    IF empty(transformed_df) THEN <<>>
    ELSE Append(frames, WithCompany(transformed_df, company_name(file_name)))

\* salesReport.py:58-64: all_data_frames after one eligible file.
Loaded(frames, file_name, transformed_df) ==
    IF empty(transformed_df) THEN frames
    ELSE Append(frames, WithCompany(transformed_df, company_name(file_name)))

float_columns == {"Crédito Local", "Débito Local"}

\* The missing value of a column: NaN for a float column, None otherwise.
Missing(col) == IF col \in float_columns THEN NaN ELSE Null

\* salesReport.py:70: pd.concat(all_data_frames, ignore_index=True), the
\* union of the columns, a cell missing where a table lacks the column.
RECURSIVE AllColumns(_)
AllColumns(frames) ==
    IF frames = <<>> THEN {} ELSE Head(frames).columns \cup AllColumns(Tail(frames))

RECURSIVE AllRows(_)
AllRows(frames) ==
    IF frames = <<>> THEN <<>> ELSE Head(frames).rows \o AllRows(Tail(frames))

concat(frames) ==
    LET columns == AllColumns(frames)
        rows == AllRows(frames)
    IN  [columns |-> columns,
         rows |-> [k \in 1..Len(rows) |->
                      [col \in columns |->
                          IF col \in DOMAIN rows[k] THEN rows[k][col]
                          ELSE Missing(col)]]]

\* Series.astype(str) of one cell.
astype_str(v) == IF v = Null THEN <<"n", "a", "n">> ELSE v

\* salesReport.py:92-94
FilterCuenta70(df) ==
    IF "Cuenta Contable" \in df.columns
    THEN [df EXCEPT !.rows =
             SelectSeq(df.rows, LAMBDA row :
                 startswith(astype_str(row["Cuenta Contable"]), <<"7", "0">>))]
    ELSE df

\* Series.fillna(0) of one cell.
fillna0(x) == IF x.isna THEN 0 ELSE x.value

\* salesReport.py:97-98: df_combined['Crédito Local'] raises KeyError when
\* no table has the column.
RaisesKeyError(df) == ~(float_columns \subseteq df.columns)

columns_to_remove == {"Débito Local", "Crédito Local"}

\* salesReport.py:96-123: saldoPEN added, the listed columns dropped.
FinalFrame(df) ==
    LET kept == (df.columns \ columns_to_remove) \cup {"saldoPEN"}
    IN  [columns |-> kept,
         rows |-> [k \in 1..Len(df.rows) |->
                     [col \in kept |->
                         IF col = "saldoPEN"
                         THEN fillna0(df.rows[k]["Crédito Local"])
                                  - fillna0(df.rows[k]["Débito Local"])
                         ELSE df.rows[k][col]]]]

\* The rows of the source extracts.
SalesRow(cuenta, credito, debito) ==
    ("Cuenta Contable" :> cuenta) @@ ("Crédito Local" :> credito)
    @@ ("Débito Local" :> debito)

SalesRowPool ==
    { SalesRow(<<"7", "0", "1">>, Float(5), Float(2)),
      SalesRow(<<"1", "7", "0">>, Float(3), Float(0)),
      SalesRow(<<"7", "0", "4">>, NaN, Float(1)) }

SalesColumns == {"Cuenta Contable", "Crédito Local", "Débito Local"}

Restrict(row, columns) == [col \in columns |-> row[col]]

\* What pd.read_excel may make of a file: it raises, or it yields a table
\* with all the columns and some rows, or a one-row table that lacks one
\* of the columns.
SalesFileContents ==
    {[readable |-> FALSE, df |-> pd_DataFrame]}
    \cup {[readable |-> TRUE, df |-> [columns |-> SalesColumns, rows |-> rows]] :
             rows \in TablesUpTo(SalesRowPool, MaxSalesRows)}
    \cup {[readable |-> TRUE,
           df |-> [columns |-> SalesColumns \ {col},
                   rows |-> <<Restrict(SalesRow(<<"7", "0", "1">>, Float(5),
                                                Float(2)),
                                       SalesColumns \ {col})>>]] :
             col \in SalesColumns}

ExtractX == <<"A", "-", "B", "-", "CompanyX", ".xlsx">>

ExtractY == <<"A", "-", "CompanyY", ".xlsx">>

ExtractHidden == <<"A", "-", "B", "-", "CompanyH", ".xlsx">>

ExtractNotes == <<"A", "-", "B", "-", "notes", ".txt">>

\* The input folders: two visible extracts (attribute ARCHIVE, 32) with any
\* content, a hidden extract (HIDDEN and ARCHIVE) and a text file whose
\* attributes cannot be read, each present or not.
SalesInputFolders ==
    LET visible == {f \in [{ExtractX, ExtractY} -> SalesFileContents \cup {<<>>}] : TRUE}
        one_row == [readable |-> TRUE,
                    df |-> [columns |-> SalesColumns,
                            rows |-> <<SalesRow(<<"7", "0", "1">>, Float(5),
                                                Float(2))>>]]
    IN  { [name \in {n \in DOMAIN f : f[n] # <<>>} \cup extra |->
              IF name \in DOMAIN f
              THEN [attrs |-> 32] @@ f[name]
              ELSE IF name = ExtractHidden
              THEN [attrs |-> FILE_ATTRIBUTE_HIDDEN + 32]
                       @@ one_row
              ELSE [attrs |-> INVALID_FILE_ATTRIBUTES] @@ one_row]
          : f \in visible, extra \in SUBSET {ExtractHidden, ExtractNotes} }

SalesLocals ==
    /\ period_input = Null
    /\ sl_entries = {}
    /\ all_data_frames = <<>>
    /\ df_final = pd_DataFrame
    /\ sl_log = <<>>

SalesIdle ==
    /\ sl_pc = "idle"
    /\ input_folder = <<>>
    /\ SalesLocals

SalesInit ==
    /\ sl_pc = "prompt"
    /\ input_folder \in SalesInputFolders
    /\ SalesLocals

\* expenseReport.py:46: period_input = str(input(...)); any text, the empty
\* text included, is passed on. salesReport.py:44-50: the scan starts.
SlPrompt ==
    /\ sl_pc = "prompt"
    /\ \E typed \in SalesPeriods \cup {<<>>} : period_input' = typed
    /\ sl_entries' = DOMAIN input_folder
    /\ sl_pc' = "scan"
    /\ UNCHANGED <<input_folder, all_data_frames, df_final, sl_log>>
    /\ UNCHANGED <<namesVars, dateVars, forecastVars, expenseVars, clientVars,
                   mainVars>>

\* salesReport.py:50-64: one entry of os.scandir, in whatever order the
\* directory yields them.
SlScanEntry ==
    /\ sl_pc = "scan"
    /\ \E file_name \in sl_entries :
        LET file == input_folder[file_name]
            transformed_df == transform_excel_file(file)
        IN  /\ sl_entries' = sl_entries \ {file_name}
            /\ IF endswith_xlsx(file_name) /\ ~is_hidden_windows(file.attrs)
               THEN /\ all_data_frames' =
                           Loaded(all_data_frames, file_name, transformed_df)
                    /\ sl_log' =
                           IF file.readable THEN sl_log
                           ELSE Append(sl_log,
                                       LogEntry("error", "reading Excel file",
                                                file_name))
               ELSE UNCHANGED <<all_data_frames, sl_log>>
    /\ UNCHANGED <<sl_pc, input_folder, period_input, df_final>>
    /\ UNCHANGED <<namesVars, dateVars, forecastVars, expenseVars, clientVars,
                   mainVars>>

SalesOutcomes == {"saved", "to_excel raises", "startfile raises"}

\* salesReport.py:66-133: the scan is over. Without a table the function
\* prints and returns; a KeyError at 97-98 leaves the function; otherwise
\* the final table is written to "{period}. SalesReport.xlsx" and opened.
SlConsolidate ==
    /\ sl_pc = "scan"
    /\ sl_entries = {}
    /\ IF all_data_frames = <<>>
       THEN /\ sl_log' = Append(sl_log, LogEntry("info", "no valid Excel files", <<>>))
            /\ sl_pc' = "done"
            /\ UNCHANGED <<df_final, sales_report_path>>
       ELSE LET df_combined == FilterCuenta70(concat(all_data_frames))
            IN  IF RaisesKeyError(df_combined)
                THEN /\ sl_pc' = "raised"
                     /\ UNCHANGED <<df_final, sl_log, sales_report_path>>
                ELSE \E outcome \in SalesOutcomes :
                     /\ sl_pc' = "done"
                     /\ df_final' = FinalFrame(df_combined)
                     /\ sales_report_path' =
                            IF outcome = "to_excel raises" THEN sales_report_path
                            ELSE WriteFile(sales_report_path,
                                           SalesFileName(period_input),
                                           [sheetnames |-> <<"rawData">>,
                                            rawData |-> FinalFrame(df_combined)])
                     /\ sl_log' =
                            IF outcome = "saved" THEN sl_log
                            ELSE Append(sl_log,
                                        LogEntry("error", "saving or opening",
                                                 <<>>))
    /\ UNCHANGED <<input_folder, period_input, sl_entries, all_data_frames>>
    /\ UNCHANGED <<main_pc, mv_pc, history_folder, mv_listing, mv_before,
                   moved_count, mv_log>>
    /\ UNCHANGED final_total_expense_soles
    /\ UNCHANGED <<namesVars, dateVars, forecastVars, expenseVars, clientVars>>

OthersIdle == ClientIdle /\ MainIdle /\ SalesIdle

(***************************************************************************)
(* Specifications.                                                         *)
(*   Spec      one run of the forecast split or of the expense split, on   *)
(*             any source tables and template within the bounds;           *)
(*   SpecNames the naming conversions on any key within the bounds;        *)
(*   SpecDates the month-end normalization on any date within the bounds;  *)
(*   SpecClients the client report on any workbook within the bounds;      *)
(*   SpecMain  one run of the main script over folders that hold files of  *)
(*             earlier runs, any move of a file failing or not;            *)
(*   SpecFaults one run of either split in which the file operations of    *)
(*             any partition value may raise;                              *)
(*   SpecSales one run of the sales consolidation over any folder of       *)
(*             extracts within the bounds.                                 *)
(***************************************************************************)
Init ==
    /\ NamesIdle
    /\ DatesIdle
    /\ OthersIdle
    /\ \/ ForecastInit /\ ExpenseIdle
       \/ ForecastIdle /\ ExpenseInit

Next ==
    \/ FcPrompt
    \/ FcLoadAndTransform
    \/ FcProcessSubowner
    \/ FcFinish
    \/ ExPrompt
    \/ ExReadInputs
    \/ ExProcessOwner
    \/ ExFinish

Spec == Init /\ [][Next]_vars

NamesNext ==
    \/ NameForecastArtifact
    \/ NameExpenseArtifact

InitNames == NamesInit /\ DatesIdle /\ ForecastIdle /\ ExpenseIdle /\ OthersIdle

SpecNames == InitNames /\ [][NamesNext]_vars

DatesNext == NormalizeDates

InitDates == NamesIdle /\ DatesInit /\ ForecastIdle /\ ExpenseIdle /\ OthersIdle

SpecDates == InitDates /\ [][DatesNext]_vars

\* The client report is run on its own, on a folder that holds one workbook.
ClientsNext ==
    \/ ClLoad
    \/ ClPrepare
    \/ ClWriteAndSave

InitClients ==
    /\ NamesIdle /\ DatesIdle /\ ForecastIdle /\ ExpenseIdle
    /\ ClientInit /\ MainIdle /\ SalesIdle

SpecClients == InitClients /\ [][ClientsNext]_vars

\* One run of the main script.
MainNext ==
    \/ MvStart
    \/ MvVisitFile
    \/ MvReport
    \/ MainStartExpense
    \/ main_pc = "expense" /\ ExPrompt
    \/ main_pc = "expense" /\ ExReadInputs
    \/ main_pc = "expense" /\ ExProcessOwner
    \/ main_pc = "expense" /\ ExFinish
    \/ MainRefreshAndTotal
    \/ MainSales
    \/ MainStartForecast
    \/ main_pc = "forecast" /\ FcPrompt
    \/ main_pc = "forecast" /\ FcLoadAndTransform
    \/ main_pc = "forecast" /\ FcProcessSubowner
    \/ main_pc = "forecast" /\ FcFinish
    \/ MainFinish

InitMain == NamesIdle /\ DatesIdle /\ ClientIdle /\ SalesIdle /\ MainInit

SpecMain == InitMain /\ [][MainNext]_vars

\* One run of process_sales_reports as the main script calls it, the sales
\* folder holding an earlier report of the same period or nothing.
SalesNext ==
    \/ SlPrompt
    \/ SlScanEntry
    \/ SlConsolidate

SalesFolderInit ==
    /\ main_pc = "idle"
    /\ mv_pc = "idle"
    /\ history_folder = <<>>
    /\ sales_report_path \in FoldersOf({SalesFileName(p) : p \in SalesPeriods})
    /\ mv_listing = {}
    /\ mv_before = <<>>
    /\ moved_count = 0
    /\ mv_log = <<>>
    /\ final_total_expense_soles = 0

InitSales ==
    /\ NamesIdle /\ DatesIdle /\ ForecastIdle /\ ExpenseIdle /\ ClientIdle
    /\ SalesFolderInit /\ SalesInit

SpecSales == InitSales /\ [][SalesNext]_vars

\* Source rows for the runs with failing file operations: partition values
\* whose artifacts have different names.
FaultExpenseRowPool ==
    { ExpenseRow(FLXTECH, <<"6", "3", "1">>, <<"M">>, <<"A", "B">>,
                 Timestamp(2023, 4, 7), 5),
      ExpenseRow(FLXTECH, <<"6", "3", "1">>, <<"M">>, <<"Z">>,
                 Timestamp(2023, 1, 31), 2),
      ExpenseRow(FLXTECH, <<"6", "3", "1">>, <<"N">>, <<"Q">>,
                 Timestamp(2023, 4, 30), 1) }

FaultDataRawRowPool ==
    { DataRawRow(<<"A", " ", "B">>, 5),
      DataRawRow(<<"Z">>, 3),
      DataRawRow(<<"Q">>, 1) }

ForecastFaultInit ==
    /\ fc_pc = "prompt"
    /\ access_db \in [expenses : TablesUpTo(FaultExpenseRowPool, MaxExpenseRows),
                      headcount : TablesUpTo({HeadcountRow(<<"E", "1">>, <<"A", "B">>,
                                                           Timestamp(2023, 1, 31))}, 1)]
    /\ ForecastLocals
    /\ forecast_output_folder = <<>>
    /\ excel_template_sheetnames \in
           {RequiredSheets \ missing : missing \in {{}, {"forecastExpenses"},
                                                   {"forecastHeadcount"}}}

ExpenseFaultInit ==
    /\ ex_pc = "prompt"
    /\ original_file \in TablesUpTo(FaultDataRawRowPool, MaxOwnerRows)
    /\ template_file \in ExpenseTemplates \cup {ExpenseTemplateWithoutSheet}
    /\ openpyxl_tables \in TableContainers
    /\ ExpenseLocalsInit

InitFaults ==
    /\ NamesIdle
    /\ DatesIdle
    /\ OthersIdle
    /\ \/ ForecastFaultInit /\ ExpenseIdle
       \/ ForecastIdle /\ ExpenseFaultInit

FaultsNext ==
    \/ FcPrompt
    \/ FcLoadAndTransform
    \/ FcProcessSubownerOrRaise
    \/ FcFinish
    \/ ExPrompt
    \/ ExReadInputs
    \/ ExProcessOwnerOrRaise
    \/ ExFinish

SpecFaults == InitFaults /\ [][FaultsNext]_vars

(***************************************************************************)
(* Properties.                                                             *)
(***************************************************************************)
ForecastSplitStarted == fc_pc \in {"loop", "done"} /\ user_forecast_version # <<>>
ExpenseSplitStarted == ex_pc \in {"loop", "done"} /\ report_period # <<>>

\* The subsets selected for `keys` are pairwise disjoint and their row counts
\* add up to the number of rows of `rows` whose key is not null.
IsPartition(rows, col, keys, Subset(_, _)) ==
    /\ \A a, b \in 1..Len(keys) :
        a # b => Range(Subset(rows, keys[a])) \cap Range(Subset(rows, keys[b])) = {}
    /\ Sum([a \in 1..Len(keys) |-> Len(Subset(rows, keys[a]))])
         = Len(SelectSeq(rows, LAMBDA row : ~IsNull(row[col])))

\* C1: the per-key subsets selected for the distinct non-null values of the
\* partition column (owner in the expense split, subOwner in the forecast
\* split) are pairwise disjoint, and their row counts add up to the number of
\* source rows whose partition key is not null; the subset handed to the
\* projection of the current key is that key's subset.
C1_KeySplitterPartition ==
    /\ ForecastSplitStarted =>
        /\ IsPartition(df_unpivoted_expenses_full.rows, "subOwner", unique_subowners,
                       RowsOfSubowner)
        /\ \A a \in 1..Len(unique_subowners) : ~IsNull(unique_subowners[a])
        /\ fc_i > 1 =>
            df_filtered_expenses =
                SelectSeq(df_unpivoted_expenses_full.rows,
                          LAMBDA row : row["subOwner"] = unique_subowners[fc_i - 1])
    /\ ExpenseSplitStarted =>
        /\ IsPartition(df_data_raw_original, "owner", unique_owners, RowsOfOwner)
        /\ \A a \in 1..Len(unique_owners) : ~IsNull(unique_owners[a])
        /\ ex_i > 1 =>
            df_filtered_for_owner =
                SelectSeq(df_data_raw_original,
                          LAMBDA row : row["owner"] = unique_owners[ex_i - 1])

\* An expense run that split three source rows, one of them with a null
\* owner, between two owners.
C1_Witness ==
    /\ ex_pc = "done"
    /\ Len(unique_owners) = 2
    /\ Len(df_data_raw_original) = 3
    /\ \E k \in 1..3 : IsNull(df_data_raw_original[k]["owner"])

\* C2: two distinct key values never resolve to the same output file, so a
\* finished run leaves as many files as there are distinct key values.
C2_OneArtifactPerKey ==
    /\ (ForecastSplitStarted /\ fc_pc = "done") =>
        Cardinality(DOMAIN forecast_output_folder) = Len(unique_subowners)
    /\ (ExpenseSplitStarted /\ ex_pc = "done") =>
        Cardinality(DOMAIN output_directory) = Len(unique_owners)

\* The text with every character outside the allow-list (alphanumeric,
\* space, hyphen, underscore) removed and the others kept in order.
RECURSIVE WithoutDisallowed(_)
WithoutDisallowed(text) ==
    IF text = <<>> THEN <<>>
    ELSE IF isalnum(Head(text)) \/ Head(text) \in {" ", "-", "_"}
         THEN <<Head(text)>> \o WithoutDisallowed(Tail(text))
         ELSE WithoutDisallowed(Tail(text))

\* C3 as stated: at both call sites the sanitized key is the key with exactly
\* the disallowed characters removed, every allowed character unchanged.
C3_SanitizationKeepsAllowed ==
    /\ nm_pc \in {"forecast_named", "named"} =>
        sanitized_subowner = WithoutDisallowed(nm_key)
    /\ nm_pc = "named" => clean_owner_name = WithoutDisallowed(nm_key)

\* C3 as amended: both call sites remove every disallowed character and keep
\* the allowed ones in order; the forecast site then removes the leading and
\* trailing spaces ("North/East #1" gives "NorthEast 1"), and the expense site
\* then replaces every space by an underscore ("North/East #1" gives
\* "NorthEast_1").
C3_SanitizationPerCallSite ==
    LET kept == WithoutDisallowed(nm_key)
    IN  /\ nm_pc \in {"forecast_named", "named"} =>
            /\ \E a, b \in 0..Len(kept) :
                /\ a + b <= Len(kept)
                /\ \A k \in 1..a : kept[k] = " "
                /\ \A k \in (Len(kept) - b + 1)..Len(kept) : kept[k] = " "
                /\ sanitized_subowner = SubSeq(kept, a + 1, Len(kept) - b)
            /\ sanitized_subowner # <<>> =>
                /\ sanitized_subowner[1] # " "
                /\ sanitized_subowner[Len(sanitized_subowner)] # " "
            /\ nm_key = NorthEast1 =>
                sanitized_subowner =
                    <<"N", "o", "r", "t", "h", "E", "a", "s", "t", " ", "1">>
        /\ nm_pc = "named" =>
            /\ Len(clean_owner_name) = Len(kept)
            /\ \A k \in 1..Len(kept) :
                clean_owner_name[k] = IF kept[k] = " " THEN "_" ELSE kept[k]
            /\ nm_key = NorthEast1 =>
                clean_owner_name =
                    <<"N", "o", "r", "t", "h", "E", "a", "s", "t", "_", "1">>

\* The key " -/" run through both call sites: the forecast site strips the
\* space that the expense site turns into an underscore.
C3_Witness ==
    /\ nm_pc = "named"
    /\ nm_key = <<" ", "-", "/">>
    /\ sanitized_subowner = <<"-">>
    /\ clean_owner_name = <<"_", "-">>

\* name is {prefix}_{second}_{last}.xlsx
IsNamed(name, prefix, second, last) ==
    /\ Len(name) = 4 + Len(second) + Len(last)
    /\ name[1] = prefix
    /\ name[2] = "_"
    /\ SubSeq(name, 3, 2 + Len(second)) = second
    /\ name[3 + Len(second)] = "_"
    /\ SubSeq(name, 4 + Len(second), 3 + Len(second) + Len(last)) = last
    /\ name[Len(name)] = ".xlsx"

\* The files of `folder` are exactly the names Name(key) of the keys processed.
FilesAreNamed(folder, keys, processed, Name(_, _)) ==
    /\ \A name \in DOMAIN folder : \E a \in 1..processed : Name(name, keys[a])
    /\ \A a \in 1..processed : \E name \in DOMAIN folder : Name(name, keys[a])

\* C4 as stated: in both splits every artifact is named
\* {Prefix}_{Version}_{SanitizedKey}.xlsx, the user-entered token second and
\* the sanitized key last.
C4_TokenSecondKeyLast ==
    /\ ForecastSplitStarted =>
        FilesAreNamed(forecast_output_folder, unique_subowners, fc_i - 1,
            LAMBDA name, key :
                IsNamed(name, "Forecast", user_forecast_version, SanitizeSubowner(key)))
    /\ ExpenseSplitStarted =>
        FilesAreNamed(output_directory, unique_owners, ex_i - 1,
            LAMBDA name, key :
                IsNamed(name, "ExpenseReport", report_period, CleanOwnerName(key)))

\* C4 as amended: every forecast artifact is named
\* Forecast_{Version}_{SanitizedKey}.xlsx, the version second and the key
\* last; every expense artifact is named
\* ExpenseReport_{SanitizedKey}_{Period}.xlsx, the key second and the period
\* last.
C4_ArtifactNames ==
    /\ ForecastSplitStarted =>
        FilesAreNamed(forecast_output_folder, unique_subowners, fc_i - 1,
            LAMBDA name, key :
                IsNamed(name, "Forecast", user_forecast_version, SanitizeSubowner(key)))
    /\ ExpenseSplitStarted =>
        FilesAreNamed(output_directory, unique_owners, ex_i - 1,
            LAMBDA name, key :
                IsNamed(name, "ExpenseReport", CleanOwnerName(key), report_period))

\* A finished expense run that saved the artifact of owner "A B" for the
\* period 23_Q4.
C4_Witness ==
    /\ ex_pc = "done"
    /\ <<"ExpenseReport", "_", "A", "_", "B", "_", "2", "3", "_", "Q", "4", ".xlsx">>
         \in DOMAIN output_directory

\* C5: after date normalization the period key of a row is the last
\* calendar day of the month of the row's original date (2023-11-07 gives
\* 2023-11-30), also for a date that already is a month end and for December;
\* the month label is the name of that month.
C5_PeriodKeyIsMonthEnd ==
    (dt_pc = "normalized" /\ dt_original # NaT) =>
        /\ periodo.y = dt_original.y
        /\ periodo.m = dt_original.m
        /\ Timestamp(periodo.y, periodo.m, periodo.d) \in ValidDates
        /\ \A ts \in ValidDates :
            (ts.y = dt_original.y /\ ts.m = dt_original.m) => ts.d <= periodo.d
        /\ periodo_month_name = month_names_ordered[dt_original.m]
        /\ dt_original = Timestamp(2023, 11, 7) =>
            (periodo.y = 2023 /\ periodo.m = 11 /\ periodo.d = 30)

\* The date 2023-12-31, a month end in December, normalized to itself.
C5_Witness ==
    /\ dt_pc = "normalized"
    /\ dt_original = Timestamp(2023, 12, 31)
    /\ periodo.y = 2023 /\ periodo.m = 12 /\ periodo.d = 31
    /\ periodo_month_name = "December"

MonthColumnsOf(frame) ==
    SelectSeq(frame.columns, LAMBDA col : col \in Range(month_names_ordered))

\* C6: for every index combination of the pre-pivot expense rows there is a
\* row of the pivoted table, and the sum of its month columns equals the sum
\* of saldoPEN over the pre-pivot rows of that combination.
C6_PivotRoundTrip ==
    ForecastSplitStarted =>
        \A k \in 1..Len(df_expenses) :
            LET combination == IndexTuple(df_expenses[k], id_vars_for_pivot_expenses)
                same == SelectSeq(df_expenses, LAMBDA row :
                            IndexTuple(row, id_vars_for_pivot_expenses) = combination)
            IN  \E r \in 1..Len(df_unpivoted_expenses_full.rows) :
                    LET pivoted == df_unpivoted_expenses_full.rows[r]
                        months == MonthColumnsOf(df_unpivoted_expenses_full)
                    IN  /\ IndexTuple(pivoted, id_vars_for_pivot_expenses) = combination
                        /\ Sum([j \in 1..Len(months) |-> pivoted[months[j]]])
                             = Sum(Column(same, "saldoPEN"))

\* C7: each cell (index row, month) of the pivoted headcount table is the
\* number of distinct nameID values among the source rows of that index
\* combination and month, zero when there is none.
C7_HeadcountDistinctCount ==
    ForecastSplitStarted =>
        \A r \in 1..Len(df_pivoted_headcount_full.rows) :
            \A col \in Range(MonthColumnsOf(df_pivoted_headcount_full)) :
                LET pivoted == df_pivoted_headcount_full.rows[r]
                    source == SelectSeq(df_headcount, LAMBDA row :
                                /\ IndexTuple(row, headcount_pivot_index)
                                     = IndexTuple(pivoted, headcount_pivot_index)
                                /\ row["period_month_name"] = col)
                IN  pivoted[col] = aggregate(source, "nameID", "nunique")

MonthIndex(name) == CHOOSE n \in 1..12 : month_names_ordered[n] = name

\* columns is the fixed identifier columns followed by the month columns of
\* frame in calendar order.
IdentifiersThenMonths(columns, fixed, frame) ==
    /\ Len(columns) >= Len(fixed)
    /\ SubSeq(columns, 1, Len(fixed)) = fixed
    /\ \A j \in (Len(fixed) + 1)..Len(columns) : columns[j] \in Range(month_names_ordered)
    /\ \A a, b \in (Len(fixed) + 1)..Len(columns) :
        a < b => MonthIndex(columns[a]) < MonthIndex(columns[b])
    /\ {columns[j] : j \in (Len(fixed) + 1)..Len(columns)}
         = Range(MonthColumnsOf(frame))

\* The block anchored at row 8, column C holds rows under columns: text in
\* the first n_fixed columns, numbers in the others.
BlockHolds(sheet, rows, columns, n_fixed) ==
    \A k \in 1..Len(rows), j \in 1..Len(columns) :
        /\ <<data_start_row + k - 1, 2 + j>> \in DOMAIN sheet
        /\ sheet[<<data_start_row + k - 1, 2 + j>>] =
              IF j <= n_fixed THEN TextCell(rows[k][columns[j]])
              ELSE NumCell(rows[k][columns[j]])

CurrentForecastArtifact ==
    forecast_output_folder[
        ForecastFileName(user_forecast_version, SanitizeSubowner(subowner))]

\* C8: in every forecast artifact the written block has the fixed identifier
\* columns first, followed by the month columns in calendar order January to
\* December, whatever the order of the months in the data or in the pivot.
C8_MonthsInCalendarOrder ==
    (ForecastSplitStarted /\ fc_i > 1) =>
        /\ IdentifiersThenMonths(final_data_table_columns_order_expenses,
                                 fixed_identifier_columns_expenses,
                                 df_unpivoted_expenses_full)
        /\ BlockHolds(CurrentForecastArtifact.forecastExpenses, df_filtered_expenses,
                      final_data_table_columns_order_expenses,
                      Len(fixed_identifier_columns_expenses))
        /\ df_pivoted_filtered_headcount # <<>> =>
            /\ IdentifiersThenMonths(final_data_table_columns_order_headcount,
                                     fixed_identifier_columns_headcount,
                                     df_pivoted_headcount_full)
            /\ BlockHolds(CurrentForecastArtifact.forecastHeadcount,
                          df_pivoted_filtered_headcount,
                          final_data_table_columns_order_headcount,
                          Len(fixed_identifier_columns_headcount))

\* An artifact whose data has April and January, which the pivot orders
\* April first.
C8_Witness ==
    /\ ForecastSplitStarted
    /\ fc_i > 1
    /\ df_unpivoted_expenses_full.columns =
          id_vars_for_pivot_expenses \o <<"April", "January">>
    /\ final_data_table_columns_order_expenses =
          fixed_identifier_columns_expenses \o <<"January", "April">>

\* C9: a month of January to December with no row in the data still has its
\* column in the output, zero in every row.
C9_AbsentBucketsSynthesized ==
    (ForecastSplitStarted /\ fc_i > 1) =>
        /\ \A n \in 1..12 :
            month_names_ordered[n] \in Range(final_data_table_columns_order_expenses)
        /\ \A k \in 1..Len(df_filtered_expenses), n \in 1..12 :
            LET j == CHOOSE j \in 1..Len(final_data_table_columns_order_expenses) :
                        final_data_table_columns_order_expenses[j] = month_names_ordered[n]
                cell == <<data_start_row + k - 1, 2 + j>>
            IN  /\ cell \in DOMAIN CurrentForecastArtifact.forecastExpenses
                /\ month_names_ordered[n] \notin Range(df_unpivoted_expenses_full.columns)
                     => CurrentForecastArtifact.forecastExpenses[cell] = NumCell(0)

\* formula is anchor with every relative row reference shifted by offset and
\* everything else unchanged.
ShiftedDown(anchor, formula, offset) ==
    /\ Len(formula) = Len(anchor)
    /\ \A k \in 1..Len(anchor) :
        IF anchor[k].kind = "ref"
        THEN formula[k] =
                RefToken(anchor[k].col,
                         IF anchor[k].row_abs THEN anchor[k].row
                         ELSE anchor[k].row + offset,
                         anchor[k].col_abs, anchor[k].row_abs)
        ELSE formula[k] = anchor[k]

CurrentExpenseArtifact ==
    output_directory[ExpenseFileName(CleanOwnerName(owner), report_period)]

\* An error was printed for the partition value `key`.
Raised(log, key) ==
    \E k \in 1..Len(log) : log[k].level = "error" /\ log[k].key = key

\* C10: in every saved expense artifact, for every column M to P whose
\* template cell in row 2 holds a formula
\* and every data row r from 2 to the last written data row, the cell at row
\* r holds the anchor formula with each relative row reference shifted by
\* r - 2 and each absolute reference unchanged; below the last data row the
\* columns M to P are left as in the template, without a formula, and a
\* column without an anchor formula receives none.
C10_FormulaExtension ==
    (ExpenseSplitStarted /\ ex_i > 1 /\ ~Raised(ex_log, owner)) =>
        LET ws_data == CurrentExpenseArtifact.dataContable
            anchors == template_file.dataContable
            last == formula_start_row + Len(df_filtered_for_owner) - 1
        IN  \A c \in Range(formula_cols) :
                /\ anchors[<<formula_start_row, c>>].data_type = "f" =>
                    \A r \in formula_start_row..last :
                        /\ <<r, c>> \in DOMAIN ws_data
                        /\ ws_data[<<r, c>>].data_type = "f"
                        /\ ShiftedDown(anchors[<<formula_start_row, c>>].f,
                                       ws_data[<<r, c>>].f, r - formula_start_row)
                /\ anchors[<<formula_start_row, c>>].data_type # "f" =>
                    \A rc \in DOMAIN ws_data : rc[2] = c => ws_data[rc].data_type # "f"
                /\ \A rc \in DOMAIN ws_data \cup DOMAIN anchors :
                    (rc[2] = c /\ rc[1] > last) =>
                        /\ rc \in DOMAIN ws_data
                        /\ rc \in DOMAIN anchors
                        /\ ws_data[rc] = anchors[rc]
                        /\ ws_data[rc].data_type # "f"

\* An artifact of three data rows whose cell O4 holds =$K4+L$1, from the
\* anchor =$K2+L$1 in O2, while P2 held no formula.
C10_Witness ==
    /\ ExpenseSplitStarted
    /\ ex_i > 1
    /\ ~Raised(ex_log, owner)
    /\ Len(df_filtered_for_owner) = 3
    /\ template_file.dataContable[<<2, 16>>].data_type # "f"
    /\ CurrentExpenseArtifact.dataContable[<<4, 15>>] =
          FormulaCell(<<LitToken(<<"=">>), RefToken(11, 4, TRUE, FALSE),
                        LitToken(<<"+">>), RefToken(12, 1, FALSE, TRUE)>>)

\* C11: after the projection of an expense artifact, whether or not the
\* template already defined a table named rawData, the dataContable sheet of
\* the artifact holds exactly one table of that name, and its range runs
\* from the header row through the last written data row over columns A to P.
C11_SingleRawDataTable ==
    (ExpenseSplitStarted /\ ex_i > 1) =>
        LET named == SelectSeq(CurrentExpenseArtifact.tables,
                               LAMBDA table_entry : table_entry.name = "rawData")
        IN  /\ Len(named) = 1
            /\ named[1] = RawDataTable(last_data_row(Len(df_filtered_for_owner)))

\* Every cell of the data region (from anchor_row down, columns anchor_col
\* to last_col) that holds a value in the template and is outside the n_rows
\* by n_cols block written at the anchor is blank in the sheet.
NoStaleCells(sheet, template_sheet, anchor_row, anchor_col, last_col, n_rows, n_cols) ==
    \A rc \in DOMAIN template_sheet :
        (/\ rc[1] >= anchor_row
         /\ rc[2] \in anchor_col..last_col
         /\ ~(rc[1] < anchor_row + n_rows /\ rc[2] < anchor_col + n_cols))
            => IsBlank(sheet, rc[1], rc[2])

\* C12: after the block write of a generated artifact (the forecastExpenses
\* and forecastHeadcount blocks from row 8, column C; dataContable columns A
\* to L from row 2) every cell of the data region that held a value in the
\* template and is not overwritten by a row of this partition is blank,
\* also when the partition has fewer rows, fewer columns or no rows.
C12_NoStaleData ==
    /\ (ForecastSplitStarted /\ fc_i > 1) =>
        /\ NoStaleCells(CurrentForecastArtifact.forecastExpenses,
                        excel_template.forecastExpenses, data_start_row, 3,
                        LastMonthColumn(fixed_identifier_columns_expenses),
                        Len(df_filtered_expenses),
                        Len(final_data_table_columns_order_expenses))
        /\ NoStaleCells(CurrentForecastArtifact.forecastHeadcount,
                        excel_template.forecastHeadcount, data_start_row, 3,
                        LastMonthColumn(fixed_identifier_columns_headcount),
                        Len(df_pivoted_filtered_headcount),
                        Len(final_data_table_columns_order_headcount))
    /\ (ExpenseSplitStarted /\ ex_i > 1 /\ ~Raised(ex_log, owner)) =>
        NoStaleCells(CurrentExpenseArtifact.dataContable, template_file.dataContable,
                     start_row_for_data, 1, 12, Len(df_filtered_for_owner), 12)

\* text is the values of the set, each once, in some order, with ", "
\* between them.
JoinedWithSeparator(text, values) ==
    \E order \in [1..Cardinality(values) -> values] :
        /\ \A a, b \in DOMAIN order : a # b => order[a] # order[b]
        /\ text = join(order)

\* C13: cell D4 of forecastExpenses holds the mainOwner of the subOwner's
\* rows when they have exactly one distinct mainOwner, and no warning is
\* printed; when they have more than one it holds all the distinct values
\* joined by ", ", never one of them alone, and a warning naming the subOwner
\* is printed.
C13_MainOwnerCell ==
    (ForecastSplitStarted /\ fc_i > 1) =>
        LET main_owners == Range(Column(df_filtered_expenses, "mainOwner"))
            D4 == CurrentForecastArtifact.forecastExpenses[<<4, 4>>]
            warned == \E k \in 1..Len(fc_log) :
                          fc_log[k].level = "warning" /\ fc_log[k].key = subowner
        IN  /\ D4.data_type = "s"
            /\ Cardinality(main_owners) = 1 => (D4.s \in main_owners /\ ~warned)
            /\ Cardinality(main_owners) > 1 =>
                /\ JoinedWithSeparator(D4.s, main_owners)
                /\ D4.s \notin main_owners
                /\ warned

\* The artifact of subOwner AB, whose rows have the mainOwners M and N.
C13_Witness ==
    /\ ForecastSplitStarted
    /\ fc_i > 1
    /\ subowner = <<"A", "B">>
    /\ Range(Column(df_filtered_expenses, "mainOwner")) = {<<"M">>, <<"N">>}
    /\ CurrentForecastArtifact.forecastExpenses[<<4, 4>>] = TextCell(<<"M", ",", " ", "N">>)
    /\ fc_log = <<LogEntry("warning", "multiple mainOwners", <<"A", "B">>)>>

\* The client summary has been computed from the clients-by-status table.
SummaryComputed == cl_pc \in {"write", "done"}

\* The Estado Servicio columns of the summary, after its two label columns.
EstadoColumns == SubSeq(df_summary.columns, 3, Len(df_summary.columns))

\* The distinct Cliente values of the clients-by-status rows of one Empresa,
\* Equipoventa and Estado Servicio.
ClientesOf(empresa, equipoventa, estado) ==
    {df_clients_by_status[k]["Cliente"] :
        k \in {j \in 1..Len(df_clients_by_status) :
                 /\ df_clients_by_status[j]["Empresa"] = empresa
                 /\ df_clients_by_status[j]["Equipoventa"] = equipoventa
                 /\ df_clients_by_status[j]["Estado Servicio"] = estado
                 /\ df_clients_by_status[j]["Cliente"] # Null}}

\* The (Empresa, Equipoventa) pairs of the clients-by-status rows that have a
\* client under some Estado Servicio.
PairsWithClients ==
    {<<df_clients_by_status[k]["Empresa"], df_clients_by_status[k]["Equipoventa"]>> :
        k \in {j \in 1..Len(df_clients_by_status) :
                 /\ df_clients_by_status[j]["Equipoventa"] # Null
                 /\ df_clients_by_status[j]["Cliente"] # Null}}

\* C14: in the client summary every retained row holds, under each Estado
\* Servicio column, the number of distinct Cliente values of its (Empresa,
\* Equipoventa); the retained rows are exactly the pairs whose counts are not
\* all zero; and the final row is a Grand Total whose value in each column
\* is the sum of that column over the retained rows. The saved Summary sheet
\* holds these counts from row 5, column D.
C14_SummaryAggregate ==
    SummaryComputed =>
        LET rows == df_summary.rows
            n == Len(rows)
        IN  /\ n >= 1
            /\ \A k \in 1..(n - 1) :
                  /\ \A estado \in Range(EstadoColumns) :
                        rows[k].counts[estado] =
                           Cardinality(ClientesOf(rows[k].Empresa,
                                                  rows[k].Equipoventa, estado))
                  /\ \E estado \in Range(EstadoColumns) : rows[k].counts[estado] > 0
                  /\ \A l \in 1..(n - 1) :
                        l # k => <<rows[l].Empresa, rows[l].Equipoventa>>
                                    # <<rows[k].Empresa, rows[k].Equipoventa>>
            /\ {<<rows[k].Empresa, rows[k].Equipoventa>> : k \in 1..(n - 1)}
                  = PairsWithClients
            /\ rows[n].Empresa = GrandTotal
            /\ \A estado \in Range(EstadoColumns) :
                  rows[n].counts[estado] =
                     Sum([k \in 1..(n - 1) |-> rows[k].counts[estado]])
            /\ cl_pc = "done" =>
                  \A k \in 1..n : \A j \in 1..Len(EstadoColumns) :
                     report_file.Summary[<<4 + k, 3 + j>>] =
                        NumCell(rows[k].counts[EstadoColumns[j]])

\* A saved summary with two retained rows, a Grand Total of at least 2 in
\* some column, a count of 2 in a single row, and a pair of the grouping
\* (an Empresa and an Equipoventa that both occur) that was dropped because
\* it has no client.
C14_Witness ==
    /\ cl_pc = "done"
    /\ Len(df_summary.rows) >= 3
    /\ \E estado \in Range(EstadoColumns) :
          /\ df_summary.rows[1].counts[estado] >= 1
          /\ df_summary.rows[Len(df_summary.rows)].counts[estado]
                > df_summary.rows[1].counts[estado]
    /\ \E k \in 1..Len(df_clients_by_status), l \in 1..Len(df_clients_by_status) :
          /\ df_clients_by_status[l]["Equipoventa"] # Null
          /\ <<df_clients_by_status[k]["Empresa"],
               df_clients_by_status[l]["Equipoventa"]>> \notin PairsWithClients

\* Precedence in an ordered vocabulary: listed values in the listed order,
\* then the unlisted values in lexicographic order.
Precedes(desired, a, b) ==
    LET pos(v) == CHOOSE k \in 1..Len(desired) : desired[k] = v
    IN  IF a \in Range(desired) /\ b \in Range(desired) THEN pos(a) < pos(b)
        ELSE IF a \in Range(desired) THEN TRUE
        ELSE IF b \in Range(desired) THEN FALSE
        ELSE StrLess(a, b)

\* C15: the rows of the client summary are ordered by Empresa (FLXTECH, NXT,
\* FLX, then every unlisted Empresa lexicographically) and by Equipoventa
\* within an Empresa; the Estado Servicio columns are ordered Activo,
\* Suspendido, Instalacion, Baja, Baja Adm, then the unlisted values
\* lexicographically; the Grand Total row is last. The saved Summary sheet
\* shows the columns in that order in row 4.
C15_OrderedVocabulary ==
    SummaryComputed =>
        LET rows == df_summary.rows
            n == Len(rows)
        IN  /\ \A k \in 1..(n - 1) : \A l \in (k + 1)..(n - 1) :
                  \/ Precedes(desired_empresa_order, rows[k].Empresa, rows[l].Empresa)
                  \/ /\ rows[k].Empresa = rows[l].Empresa
                     /\ StrLess(rows[k].Equipoventa, rows[l].Equipoventa)
            /\ \A i \in 1..Len(EstadoColumns) : \A j \in (i + 1)..Len(EstadoColumns) :
                  Precedes(desired_estado_servicio_order,
                           EstadoColumns[i], EstadoColumns[j])
            /\ \A k \in 1..n : (rows[k].Empresa = GrandTotal) <=> (k = n)
            /\ cl_pc = "done" =>
                  \A j \in 1..Len(EstadoColumns) :
                     report_file.Summary[<<4, 3 + j>>] = TextCell(EstadoColumns[j])

\* A saved summary with a listed Empresa that sorts after an unlisted one by
\* name placed before it, or two rows of one Empresa, next to an unlisted
\* Estado Servicio column that sorts before a listed one by name.
C15_Witness ==
    /\ cl_pc = "done"
    /\ Len(df_summary.rows) >= 3
    /\ \/ /\ df_summary.rows[1].Empresa \in Range(desired_empresa_order)
          /\ df_summary.rows[2].Empresa \notin Range(desired_empresa_order)
          /\ StrLess(df_summary.rows[2].Empresa, df_summary.rows[1].Empresa)
       \/ df_summary.rows[1].Empresa = df_summary.rows[2].Empresa
    /\ \E i \in 1..Len(EstadoColumns) : \E j \in (i + 1)..Len(EstadoColumns) :
          StrLess(EstadoColumns[j], EstadoColumns[i])

\* C16: in the saved client report the sheet ALERTS is first, Summary is
\* second and Clients by status is third, for any number of other sheets
\* left in the workbook.
C16_SheetOrder ==
    cl_pc = "done" =>
        /\ report_file.sheetnames[1] = <<"ALERTS">>
        /\ report_file.sheetnames[2] = <<"Summary">>
        /\ report_file.sheetnames[3] = <<"Clients by status">>

\* A call of move_files_to_history has returned and the script has not gone
\* on yet.
MoverReturned == mv_pc = "returned" /\ main_pc \in {"move expense", "move sales"}

\* The lines printed by the current call of move_files_to_history.
CurrentCallLog ==
    LET starts == {k \in 1..Len(mv_log) : mv_log[k].event = "starting to move files"}
        last == CHOOSE k \in starts : \A j \in starts : j <= k
    IN  IF starts = {} THEN <<>> ELSE SubSeq(mv_log, last, Len(mv_log))

\* The files the call found whose names end in .xlsx or .xlsm and differ from
\* the template's file name.
OutputTyped ==
    {f \in DOMAIN mv_before :
        /\ f[Len(f)] = ".xlsx" \/ f[Len(f)] = ".xlsm"
        /\ f # (IF main_pc = "move expense" THEN ExpenseTemplateName
                ELSE SalesTemplateName)}

C18_ZeroMovedDistinctFromError ==
    MoverReturned =>
        LET errors == {k \in 1..Len(CurrentCallLog) : CurrentCallLog[k].level = "error"}
            none_found == \E k \in 1..Len(CurrentCallLog) :
                             CurrentCallLog[k].event = "no files found to move"
        IN  /\ OutputTyped = {} => none_found /\ errors = {}
            /\ (OutputTyped # {} /\ moved_count = 0) =>
                  \A f \in OutputTyped : Raised(CurrentCallLog, f)
            /\ {CurrentCallLog[k].key : k \in errors}
                  = OutputTyped \cap DOMAIN WorkingFolder
            /\ none_found <=> moved_count = 0

\* Two eligible files were found and both moves raised.
C18_Witness ==
    /\ MoverReturned
    /\ Cardinality(OutputTyped) = 2
    /\ moved_count = 0
    /\ OutputTyped \subseteq DOMAIN WorkingFolder

\* A file of an earlier run, and a file written by this run.
HoldsPriorArtifact(folder) == \E f \in DOMAIN folder : folder[f] = PriorArtifact

HoldsCurrentOutput(folder) ==
    \E f \in DOMAIN folder : folder[f] \notin {PriorArtifact, OtherFile, TemplateFile}

\* C19: in a run of the main script in which no move raised, no working
\* folder (expense output, sales, forecast output) holds both an artifact
\* of an earlier run and an output of this run: the archive call on a
\* folder precedes the workflow that writes into it.
C19_ArchiveBeforeGeneration ==
    (main_pc # "idle" /\ \A k \in 1..Len(mv_log) : mv_log[k].level # "error") =>
        /\ ~(HoldsPriorArtifact(output_directory) /\ HoldsCurrentOutput(output_directory))
        /\ ~(HoldsPriorArtifact(sales_report_path) /\ HoldsCurrentOutput(sales_report_path))
        /\ ~(HoldsPriorArtifact(forecast_output_folder)
               /\ HoldsCurrentOutput(forecast_output_folder))

\* The forecast split has left its trace of the subOwner `key`: an error line
\* naming it, or a projected artifact under its name.
ForecastAttempted(key) ==
    LET name == ForecastFileName(user_forecast_version, SanitizeSubowner(key))
    IN  \/ Raised(fc_log, key)
        \/ name \in DOMAIN forecast_output_folder
             /\ forecast_output_folder[name] # excel_template

\* The expense split has left its trace of the owner `key`.
ExpenseAttempted(key) ==
    LET name == ExpenseFileName(CleanOwnerName(key), report_period)
    IN  \/ Raised(ex_log, key)
        \/ name \in DOMAIN output_directory /\ output_directory[name] # template_file

\* C20: in both splits the partition values are attempted in order, one per
\* pass of the loop, whatever the outcome of the earlier ones: a value whose
\* copy, projection or recalculation raised has an error line naming it, any
\* other attempted value has its projected artifact, error lines name only
\* values already attempted, and when the function has returned every
\* partition value has been attempted.
C20_FailureIsolation ==
    /\ fc_pc \in {"loop", "done"} =>
          /\ \A k \in 1..Len(unique_subowners) :
                /\ k < fc_i => ForecastAttempted(unique_subowners[k])
                /\ k >= fc_i => ~ForecastAttempted(unique_subowners[k])
          /\ fc_pc = "done" => \A k \in 1..Len(unique_subowners) : k < fc_i
          /\ \A j \in 1..Len(fc_log) :
                fc_log[j].level = "error" =>
                   \E k \in 1..Len(unique_subowners) :
                      k < fc_i /\ unique_subowners[k] = fc_log[j].key
    /\ ex_pc \in {"loop", "done"} =>
          /\ \A k \in 1..Len(unique_owners) :
                /\ k < ex_i => ExpenseAttempted(unique_owners[k])
                /\ k >= ex_i => ~ExpenseAttempted(unique_owners[k])
          /\ ex_pc = "done" => \A k \in 1..Len(unique_owners) : k < ex_i
          /\ \A j \in 1..Len(ex_log) :
                \E k \in 1..Len(unique_owners) :
                   k < ex_i /\ unique_owners[k] = ex_log[j].key

\* The forecast split has returned; its first subOwner raised and its second
\* subOwner, attempted after it, has its projected artifact.
C20_Witness ==
    /\ fc_pc = "done"
    /\ Len(unique_subowners) >= 2
    /\ Raised(fc_log, unique_subowners[1])
    /\ ~Raised(fc_log, unique_subowners[2])
    /\ ForecastAttempted(unique_subowners[2])

\* C21: in template_forecast_generator, whenever the loop is about to process
\* a subOwner, no workbook of an earlier subOwner whose Excel automation
\* failed is open in the shared Excel application.
C21_NoWorkbookLeftOpen ==
    (fc_pc = "loop" /\ fc_i <= Len(unique_subowners)) =>
        \A k \in 1..(fc_i - 1) :
            ForecastFileName(user_forecast_version,
                             SanitizeSubowner(unique_subowners[k]))
                \notin excel_app_workbooks

\* The report the sales run wrote, if it wrote one.
HasSalesReport ==
    /\ sl_pc = "done"
    /\ SalesFileName(period_input) \in DOMAIN sales_report_path
    /\ "rawData" \in DOMAIN sales_report_path[SalesFileName(period_input)]

SalesReportRows == sales_report_path[SalesFileName(period_input)].rawData.rows

\* The entries of the input folder that are .xlsx files and not hidden.
VisibleExtracts ==
    {file_name \in DOMAIN input_folder :
        /\ endswith_xlsx(file_name)
        /\ ~is_hidden_windows(input_folder[file_name].attrs)}

\* The row of the report is the row `source` of the extract, tagged.
ComesFrom(row, source, tag) ==
    /\ row["company"] = tag
    /\ float_columns \subseteq DOMAIN source
          => row["saldoPEN"] = fillna0(source["Crédito Local"])
                                   - fillna0(source["Débito Local"])
    /\ "Cuenta Contable" \in DOMAIN source
          => row["Cuenta Contable"] = source["Cuenta Contable"]

\* C22: every row of the consolidated report comes from an extract that is
\* a .xlsx file and not hidden; it is tagged with the last '-' segment of
\* that file's name when the name has at least three segments and with
\* "UNKNOWN" otherwise; and whenever some loaded extract has the column
\* 'Cuenta Contable', every row's Cuenta Contable starts with "70".
C22_SalesConsolidation ==
    HasSalesReport =>
        \A k \in 1..Len(SalesReportRows) :
            LET row == SalesReportRows[k]
            IN  /\ \E file_name \in VisibleExtracts :
                     LET segments == split(replace_xlsx(file_name))
                         source_rows == input_folder[file_name].df.rows
                     IN  \E j \in 1..Len(source_rows) :
                             ComesFrom(row, source_rows[j],
                                       IF Len(segments) >= 3
                                       THEN segments[Len(segments)]
                                       ELSE UNKNOWN)
                /\ "Cuenta Contable" \in DOMAIN row
                      => startswith(row["Cuenta Contable"], <<"7", "0">>)

\* A report made of a three-segment extract and a two-segment extract next
\* to a hidden extract, a row of another account having been filtered out.
C22_Witness ==
    /\ HasSalesReport
    /\ ExtractHidden \in DOMAIN input_folder
    /\ \E k \in 1..Len(SalesReportRows) : SalesReportRows[k]["company"] = <<"CompanyX">>
    /\ \E k \in 1..Len(SalesReportRows) : SalesReportRows[k]["company"] = UNKNOWN
    /\ Len(SalesReportRows) < Len(AllRows(all_data_frames))

\* C22 as stated: every row of the report comes from a visible extract, is
\* tagged with the segment after the last '-' of that extract's name, and
\* has a Cuenta Contable that starts with "70".
C22_CompanyIsLastSegment ==
    HasSalesReport =>
        \A k \in 1..Len(SalesReportRows) :
            LET row == SalesReportRows[k]
            IN  /\ \E file_name \in VisibleExtracts :
                     LET segments == split(replace_xlsx(file_name))
                         source_rows == input_folder[file_name].df.rows
                     IN  \E j \in 1..Len(source_rows) :
                             ComesFrom(row, source_rows[j], segments[Len(segments)])
                /\ "Cuenta Contable" \in DOMAIN row
                /\ startswith(row["Cuenta Contable"], <<"7", "0">>)

\* The scan of the input folder is over.
ScanOver == sl_pc \in {"done", "raised"} \/ (sl_pc = "scan" /\ sl_entries = {})

\* The visible extracts that pd.read_excel cannot read.
UnreadableExtracts ==
    {file_name \in VisibleExtracts : ~input_folder[file_name].readable}

\* The visible extracts that yield a table with rows.
LoadableExtracts ==
    {file_name \in VisibleExtracts :
        /\ input_folder[file_name].readable
        /\ input_folder[file_name].df.rows # <<>>}

\* C23: when the scan is over, every visible extract that could be read
\* and has rows is in the batch, whatever other files could not be read,
\* and each unreadable file was reported by name; when the batch is empty
\* the function ends with the no-input message and the sales folder holds
\* no report.
C23_LoaderFailurePolicy ==
    /\ ScanOver =>
          /\ \A file_name \in LoadableExtracts :
                \E k \in 1..Len(all_data_frames) :
                    all_data_frames[k] =
                        WithCompany(input_folder[file_name].df,
                                    company_name(file_name))
          /\ Len(all_data_frames) = Cardinality(LoadableExtracts)
          /\ \A file_name \in UnreadableExtracts :
                LogEntry("error", "reading Excel file", file_name) \in Range(sl_log)
    /\ (ScanOver /\ all_data_frames = <<>> /\ sl_pc # "scan") =>
          /\ sl_pc = "done"
          /\ sl_log # <<>>
          /\ sl_log[Len(sl_log)] = LogEntry("info", "no valid Excel files", <<>>)
          /\ \A f \in DOMAIN sales_report_path : sales_report_path[f] = FoundFile(f)

\* A report written from one extract while the other could not be read.
C23_Witness ==
    /\ HasSalesReport
    /\ UnreadableExtracts # {}
    /\ LoadableExtracts # {}

\* C24: when the template lacks a sheet the split looks up by name, the
\* split stops before its loop: no partition value is attempted and the
\* output folder stays empty.
C24_FatalTemplateAborts ==
    /\ RequiredSheets \ excel_template_sheetnames # {} =>
          /\ subowner = Null
          /\ forecast_output_folder = <<>>
    /\ "dataContable" \notin Range(template_file.sheetnames) =>
          /\ owner = Null
          /\ output_directory = <<>>

\* The part of C24 about the expense split.
ExpenseTemplateAborts ==
    "dataContable" \notin Range(template_file.sheetnames) =>
        /\ owner = Null
        /\ output_directory = <<>>
        /\ ex_pc \in {"prompt", "read", "done", "aborted"}

\* The expected columns that no loaded extract has.
AbsentSalesColumns == SalesColumns \ AllColumns(all_data_frames)

\* C25: when process_sales_reports has loaded a batch in which an expected
\* column is absent, it ends normally and has printed a warning that names
\* the column.
C25_AbsentColumnNeverAborts ==
    (sl_pc \in {"done", "raised"} /\ all_data_frames # <<>>) =>
        \A col \in AbsentSalesColumns :
            /\ sl_pc = "done"
            /\ LogEntry("warning", "column not found", <<col>>) \in Range(sl_log)

\* C26: a workflow that was given an empty token writes nothing: the expense
\* and forecast output folders stay empty and the sales folder holds only
\* what it held before the run.
C26_EmptyTokenRejected ==
    /\ (ex_pc # "prompt" /\ report_period = <<>>) => output_directory = <<>>
    /\ (fc_pc # "prompt" /\ user_forecast_version = <<>>) =>
          forecast_output_folder = <<>>
    /\ (sl_pc # "prompt" /\ period_input = <<>>) =>
          \A f \in DOMAIN sales_report_path : sales_report_path[f] = FoundFile(f)

\* The part of C26 about the expense split and the forecast split.
SplitsRejectEmptyToken ==
    /\ (ex_pc # "prompt" /\ report_period = <<>>) =>
          ex_pc \in {"idle", "done"} /\ output_directory = <<>>
    /\ (fc_pc # "prompt" /\ user_forecast_version = <<>>) =>
          fc_pc \in {"idle", "done"} /\ forecast_output_folder = <<>>

\* Every month column of `columns` stands at the place of its month: the
\* n-th month of the year right after the identifier columns plus n - 1.
MonthsAtFixedColumns(columns, fixed) ==
    \A j \in 1..Len(columns) :
        columns[j] \in Range(month_names_ordered) =>
            j = Len(fixed) + MonthIndex(columns[j])

\* C27: in every forecast artifact the values of the n-th month of the year
\* are written to the n-th column after the identifier columns (which start
\* at column C), on both sheets, whichever months occur in the data.
C27_MonthsAtFixedColumns ==
    (ForecastSplitStarted /\ fc_i > 1) =>
        /\ MonthsAtFixedColumns(final_data_table_columns_order_expenses,
                                fixed_identifier_columns_expenses)
        /\ df_pivoted_filtered_headcount # <<>> =>
              MonthsAtFixedColumns(final_data_table_columns_order_headcount,
                                   fixed_identifier_columns_headcount)

\* C28: in both splits, a partition value for which a step of the loop body
\* raised has no file in the output folder.
C28_NoHalfMadeArtifact ==
    /\ fc_pc \in {"loop", "done"} =>
          \A k \in 1..Len(unique_subowners) :
              (k < fc_i /\ Raised(fc_log, unique_subowners[k])) =>
                  ForecastFileName(user_forecast_version,
                                   SanitizeSubowner(unique_subowners[k]))
                      \notin DOMAIN forecast_output_folder
    /\ ex_pc \in {"loop", "done"} =>
          \A k \in 1..Len(unique_owners) :
              (k < ex_i /\ Raised(ex_log, unique_owners[k])) =>
                  ExpenseFileName(CleanOwnerName(unique_owners[k]), report_period)
                      \notin DOMAIN output_directory

\* The sum of 'Saldo Soles' over the rows of the source sheet dataRaw whose
\* owner is not null.
SourceTotal ==
    Sum(Column(SelectSeq(original_file, LAMBDA row : row["owner"] # Null),
               "Saldo Soles"))

\* The main script has printed the total of the expense workflow.
TotalPrinted == main_pc \in {"sales", "move sales", "forecast", "done"}

\* C29: when the main script has printed the total, a period was entered
\* and no archive move or split step failed, the total equals the sum of
\* 'Saldo Soles' over the source rows with an owner.
C29_EndToEndTotal ==
    (/\ TotalPrinted
     /\ report_period # <<>>
     /\ \A k \in 1..Len(mv_log) : mv_log[k].level # "error"
     /\ ex_log = <<>>)
        => final_total_expense_soles = SourceTotal

\* The same for sources in which no two owners share a file name.
TotalWithoutCollision ==
    (/\ TotalPrinted
     /\ report_period # <<>>
     /\ \A k \in 1..Len(mv_log) : mv_log[k].level # "error"
     /\ ex_log = <<>>
     /\ \A a, b \in Range(unique_owners) :
            CleanOwnerName(a) = CleanOwnerName(b) => a = b)
        => final_total_expense_soles = SourceTotal

\* The two sections of the ALERTS sheet of the saved report.
Filtro1Section == report_file.ALERTS.filtro1

Filtro2Section == report_file.ALERTS.filtro2

\* No two rows of the section have the same Cliente.
OnePerCliente(section) ==
    \A a, b \in 1..Len(section) :
        section[a]["Cliente"] = section[b]["Cliente"] => a = b

============================================================================
